---- MODULE Spec2Model ----
(***************************************************************************)
(* Model of the election chat bot: ElectionAgent (src/agent_sql.py) and    *)
(* the chat script that drives it (src/appN3.py).                          *)
(*                                                                         *)
(* Texts are sequences of characters; a character is a one-character       *)
(* string, and a character outside ASCII is written by name ("<E-acute>"). *)
(* Python's 0-based positions are kept 1-based here: a search that finds   *)
(* nothing gives 0 where Python gives -1.                                  *)
(***************************************************************************)
EXTENDS Integers, Sequences, FiniteSets, TLC

VARIABLES
    pc,              \* the position of the call in progress
    query,           \* the question handed to the router
    intent,          \* what route_intent returned
    user_question,   \* validate_and_execute: its arguments
    context_choice,
    sql,             \* run_process: its local sql
    df,              \* validate_and_execute: the result of the first run_process
    final_sql,
    error,
    df_corr,         \* validate_and_execute: the result of the second run_process
    sql_corr,
    error_corr,
    ret,             \* what validate_and_execute returned
    db,              \* the data: the values of the three columns of vw_results_clean
    oracle_behaviour, \* the outcomes the oracle of generate_sql may give
    engine_behaviour, \* the outcomes the engine may give to a query
    found_keyword,   \* check_ambiguity: its locals
    entity_type,
    cols,            \* the columns still to scan
    options,
    amb,             \* what check_ambiguity returned
    lookups,         \* observation: one record per column scanned
    runs,            \* observation: one record per run_process call
    history,         \* st.session_state: the entries of the chat
    context,         \* st.session_state: the value resolved or selected
    session_options, \* st.session_state.options: the choices offered
    count,           \* st.session_state: the questions typed
    last_query,
    ambiguous_term,
    greeting_cache,  \* the lru_cache of generate_greeting
    typed,           \* observation: the question typed last (None before the first)
    greeting_calls,  \* observation: the questions generate_greeting sent to the oracle
    partis_map,      \* the schema: common_aliases.partis, in the order of the file
    normalized,      \* what normalize_query returned
    renormalized,    \* what normalize_query returned for its own result
    narration,       \* the chunks generate_narrative yielded
    narrative_calls  \* observation: the requests generate_narrative sent to the oracle

routeVars == <<query, intent>>

execVars == <<user_question, context_choice, sql, df, final_sql, error,
              df_corr, sql_corr, error_corr, ret, runs>>

ambLocals == <<found_keyword, entity_type, cols, options, amb, lookups>>

ambVars == <<db, ambLocals>>

appVars == <<history, context, session_options, count, last_query, ambiguous_term,
             greeting_cache, greeting_calls, typed>>

envVars == <<oracle_behaviour, engine_behaviour>>

normVars == <<partis_map, normalized, renormalized>>

narrVars == <<narration, narrative_calls>>

vars == <<pc, envVars, normVars, narrVars, routeVars, ambVars, execVars, appVars>>

(***************************************************************************)
(* Text primitives (Python str methods and the re calls the code makes)    *)
(***************************************************************************)
LowerLetters == <<"a", "b", "c", "d", "e", "f", "g", "h", "i", "j", "k", "l", "m", "n", "o", "p", "q", "r", "s", "t", "u", "v", "w", "x", "y", "z", "<e-acute>", "<e-grave>", "<e-circ>", "<a-grave>", "<c-cedil>", "<i-circ>">>

UpperLetters == <<"A", "B", "C", "D", "E", "F", "G", "H", "I", "J", "K", "L", "M", "N", "O", "P", "Q", "R", "S", "T", "U", "V", "W", "X", "Y", "Z", "<E-acute>", "<E-grave>", "<E-circ>", "<A-grave>", "<C-cedil>", "<I-circ>">>

UpperOf == [i \in 1..Len(LowerLetters) |-> UpperLetters[i]]

Range(s) == {s[i] : i \in 1..Len(s)}

IndexIn(c, s) == CHOOSE i \in 1..Len(s) : s[i] = c

\* str.upper() of one character: the sharp s becomes two letters.
UpperChar(c) ==
    IF c = "<sharp-s>" THEN <<"S", "S">>
    ELSE IF c \in Range(LowerLetters) THEN <<UpperLetters[IndexIn(c, LowerLetters)]>>
    ELSE <<c>>

\* str.lower() of one character.
LowerChar(c) ==
    IF c \in Range(UpperLetters) THEN LowerLetters[IndexIn(c, UpperLetters)] ELSE c

\* str.upper(), by halves.
RECURSIVE Upper(_)
Upper(s) ==
    IF s = <<>> THEN <<>>
    ELSE IF Len(s) = 1 THEN UpperChar(s[1])
    ELSE LET half == Len(s) \div 2 IN
         Upper(SubSeq(s, 1, half)) \o Upper(SubSeq(s, half + 1, Len(s)))

Lower(s) == [i \in 1..Len(s) |-> LowerChar(s[i])]

\* pat occurs in s at position i.
OccursAt(pat, s, i) ==
    /\ i >= 1
    /\ i + Len(pat) - 1 <= Len(s)
    /\ \A k \in 1..Len(pat) : s[i + k - 1] = pat[k]

\* pat in s
Contains(pat, s) == \E i \in 1..(Len(s) - Len(pat) + 1) : OccursAt(pat, s, i)

\* s.find(pat), 1-based, 0 when absent
Find(pat, s) ==
    IF Contains(pat, s)
    THEN CHOOSE i \in 1..(Len(s) - Len(pat) + 1) :
            /\ OccursAt(pat, s, i)
            /\ \A j \in 1..(i - 1) : ~OccursAt(pat, s, j)
    ELSE 0

StartsWith(s, pat) == OccursAt(pat, s, 1)

\* Two characters that differ at most by their case.
SameLetter(a, b) == UpperChar(a) = UpperChar(b)

\* pat occurs in s at i, whatever the case.
OccursAtAnyCase(pat, s, i) ==
    /\ i >= 1
    /\ i + Len(pat) - 1 <= Len(s)
    /\ \A k \in 1..Len(pat) : SameLetter(s[i + k - 1], pat[k])

ContainsAnyCase(pat, s) == \E i \in 1..Len(s) : OccursAtAnyCase(pat, s, i)

\* s[i:] for a 1-based i
From(s, i) == SubSeq(s, i, Len(s))

Whitespace == {" ", "\n"}

RECURSIVE LStrip(_)
LStrip(s) == IF s # <<>> /\ Head(s) \in Whitespace THEN LStrip(Tail(s)) ELSE s

RECURSIVE RStrip(_)
RStrip(s) ==
    IF s # <<>> /\ s[Len(s)] \in Whitespace THEN RStrip(SubSeq(s, 1, Len(s) - 1)) ELSE s

\* str.strip()
Strip(s) == RStrip(LStrip(s))

\* The end of the run of characters of class cls that starts at i (i - 1 when
\* s[i] is not in cls).
RunEnd(s, i, cls) ==
    LET out == { j \in i..Len(s) : s[j] \notin cls } IN
    IF i > Len(s) THEN i - 1
    ELSE IF out = {} THEN Len(s)
    ELSE (CHOOSE j \in out : \A k \in out : j <= k) - 1

\* re.findall(r"[cls]+", s), as a set: the maximal runs of cls characters.
FindAllRuns(s, cls) ==
    { SubSeq(s, i, RunEnd(s, i, cls)) :
        i \in { j \in 1..Len(s) : s[j] \in cls /\ (j = 1 \/ s[j - 1] \notin cls) } }

\* str.replace(pat, ""): the occurrences of pat removed, left to right.
RECURSIVE Remove(_, _)
Remove(s, pat) ==
    IF ~Contains(pat, s) THEN s
    ELSE LET i == Find(pat, s) IN
         SubSeq(s, 1, i - 1) \o Remove(From(s, i + Len(pat)), pat)

\* re.sub(r"p1|p2", "", s): at each position p1 is tried before p2.
RECURSIVE RemoveEither(_, _, _)
RemoveEither(s, p1, p2) ==
    LET hits == { i \in 1..Len(s) : OccursAt(p1, s, i) \/ OccursAt(p2, s, i) } IN
    IF hits = {} THEN s
    ELSE LET i == CHOOSE h \in hits : \A k \in hits : h <= k
             n == IF OccursAt(p1, s, i) THEN Len(p1) ELSE Len(p2)
         IN SubSeq(s, 1, i - 1) \o RemoveEither(From(s, i + n), p1, p2)

\* s.split(c)[0]
BeforeFirst(s, c) ==
    IF c \in Range(s) THEN SubSeq(s, 1, Find(<<c>>, s) - 1) ELSE s

Last(s) == s[Len(s)]

\* Python's None, among texts and tables.
None == <<"<None>">>

\* Python's truth of an optional text: neither None nor empty.
Truthy(x) == x # None /\ x # <<>>

(***************************************************************************)
(* Schema registry: the part of schema_for_agent.json the agent reads      *)
(***************************************************************************)
\* security_rules.forbidden_keywords
forbidden_keywords == { <<"D", "R", "O", "P">>, <<"d", "e", "l", "e", "t", "e">>, <<"I", "N", "D", "E", "P", "E", "N", "D", "A", "N", "T">> }

\* allowed_views[].view_name
allowed_views == { <<"v", "w", "_", "r", "e", "s", "u", "l", "t", "s", "_", "c", "l", "e", "a", "n">>, <<"v", "w", "_", "w", "i", "n", "n", "e", "r", "s">> }

\* allowed_tables[].table_name
allowed_tables == { <<"r", "e", "s", "u", "l", "t", "s">> }

allowed_objects == allowed_views \cup allowed_tables

(***************************************************************************)
(* ElectionAgent.normalize_query                                           *)
(***************************************************************************)
\* An entry of common_aliases.partis: the standard name and its aliases.
Aliases(std, aliases) == [std |-> std, aliases |-> aliases]

\* The characters of \w: letters, digits and the underscore.
WordChars ==
    Range(UpperLetters) \cup Range(LowerLetters) \cup Range(<<"0", "1", "2", "3", "4", "5", "6", "7", "8", "9", "_">>) \cup {"<sharp-s>"}

\* \b between s[k] and s[k + 1]: a word character on one side only.
WordBoundary(s, k) ==
    (k >= 1 /\ k <= Len(s) /\ s[k] \in WordChars)
        # (k + 1 >= 1 /\ k + 1 <= Len(s) /\ s[k + 1] \in WordChars)

\* The pattern \b alias \b matches in s at position i.
WordMatchAt(alias, s, i) ==
    /\ OccursAt(alias, s, i)
    /\ WordBoundary(s, i - 1)
    /\ WordBoundary(s, i + Len(alias) - 1)

\* re.sub(pattern, std, s) from position i on: the matches are replaced left to
\* right, none overlapping another, and what is put in is not searched again.
RECURSIVE sub_from(_, _, _, _)
sub_from(alias, std, s, i) ==
    LET hits == { j \in i..(Len(s) + 1) : WordMatchAt(alias, s, j) } IN
    IF hits = {} THEN From(s, i)
    ELSE LET j == CHOOSE h \in hits : \A k \in hits : h <= k IN
         SubSeq(s, i, j - 1) \o std \o
            (IF alias # <<>> THEN sub_from(alias, std, s, j + Len(alias))
             ELSE IF j <= Len(s) THEN <<s[j]>> \o sub_from(alias, std, s, j + 1)
             ELSE <<>>)

\* The pairs (alias, standard name), upper-cased, in the order of the table,
\* without the aliases equal to their standard name.
RECURSIVE flat_aliases(_)
flat_aliases(table) ==
    IF table = <<>> THEN <<>>
    ELSE LET e == Head(table)
             Differs(a) == Upper(a) # Upper(e.std)
             kept == SelectSeq(e.aliases, Differs)
         IN [k \in 1..Len(kept) |-> <<Upper(kept[k]), Upper(e.std)>>] \o flat_aliases(Tail(table))

\* list.sort(key=len of the alias, reverse=True): longest first, and pairs of
\* the same length in the order they had.
RECURSIVE sort_longest_first(_)
sort_longest_first(pairs) ==
    IF pairs = <<>> THEN <<>>
    ELSE LET longest == CHOOSE k \in 1..Len(pairs) :
                           /\ \A j \in 1..Len(pairs) : Len(pairs[j][1]) <= Len(pairs[k][1])
                           /\ \A j \in 1..(k - 1) : Len(pairs[j][1]) < Len(pairs[k][1])
         IN <<pairs[longest]>>
              \o sort_longest_first(SubSeq(pairs, 1, longest - 1)
                                      \o SubSeq(pairs, longest + 1, Len(pairs)))

\* The loop of the substitutions, one pair after the other.
RECURSIVE substitute_all(_, _)
substitute_all(pairs, s) ==
    IF pairs = <<>> THEN s
    ELSE substitute_all(Tail(pairs), sub_from(Head(pairs)[1], Head(pairs)[2], s, 1))

normalize_query(q, table) ==
    Strip(substitute_all(sort_longest_first(flat_aliases(table)), Upper(q)))

\* The variables of the calls of normalize_query before they are made.
NormFresh ==
    /\ normalized = None
    /\ renormalized = None

(***************************************************************************)
(* ElectionAgent.route_intent                                              *)
(***************************************************************************)
\* The character class [A-Z...] of the word scan.
WordClass == Range(<<"A", "B", "C", "D", "E", "F", "G", "H", "I", "J", "K", "L", "M", "N", "O", "P", "Q", "R", "S", "T", "U", "V", "W", "X", "Y", "Z", "<E-acute>", "<E-grave>", "<E-circ>", "<A-grave>", "<C-cedil>">>)

mots_dangereux == {
    <<"S", "U", "P", "P", "R", "I", "M", "E", "R">>, <<"S", "U", "P", "P", "R", "I", "M", "E">>, <<"S", "U", "P", "R", "I", "M", "E", "R">>, <<"S", "U", "P", "R", "I", "M", "E">>, <<"E", "F", "F", "A", "C", "E">>, <<"E", "F", "F", "A", "C", "E", "R">>,
    <<"D", "E", "T", "R", "U", "I", "R", "E">>, <<"D", "E", "T", "R", "U", "I", "T">>, <<"M", "O", "D", "I", "F", "I", "E", "R">>, <<"M", "O", "D", "I", "F", "I", "E">>, <<"A", "J", "O", "U", "T", "E", "R">>, <<"A", "J", "O", "U", "T", "E">>,
    <<"C", "H", "A", "N", "G", "E", "R">>, <<"C", "H", "A", "N", "G", "E">>, <<"R", "E", "M", "P", "L", "A", "C", "E">>, <<"R", "E", "M", "P", "L", "A", "C", "E", "R">>, <<"C", "R", "E", "E">>, <<"C", "R", "E", "E", "R">>,
    <<"V", "I", "D", "E", "R">>, <<"N", "E", "T", "T", "O", "Y", "E", "R">>, <<"E", "N", "L", "E", "V", "E", "R">>, <<"R", "E", "T", "I", "R", "E", "R">> }

salutations == { <<"B", "O", "N", "J", "O", "U", "R">>, <<"B", "O", "N", "S", "O", "I", "R">>, <<"S", "A", "L", "U", "T">>, <<"H", "E", "L", "L", "O">>, <<"C", "O", "U", "C", "O", "U">> }

mots_hors_sujet == {
    <<"M", "<E-acute>", "T", "<E-acute>", "O">>, <<"C", "L", "I", "M", "A", "T">>, <<"F", "O", "O", "T", "B", "A", "L", "L">>, <<"S", "P", "O", "R", "T">>, <<"H", "I", "S", "T", "O", "I", "R", "E">>, <<"G", "<E-acute>", "O", "G", "R", "A", "P", "H", "I", "E">>,
    <<"S", "C", "I", "E", "N", "C", "E">>, <<"T", "E", "C", "H", "N", "O", "L", "O", "G", "I", "E">>, <<"M", "U", "S", "I", "Q", "U", "E">>, <<"C", "I", "N", "<E-acute>", "M", "A">>, <<"F", "I", "L", "M">>, <<"S", "A", "N", "T", "<E-acute>">>,
    <<"C", "U", "I", "S", "I", "N", "E">>, <<"R", "E", "C", "E", "T", "T", "E">>, <<"V", "O", "Y", "A", "G", "E">>, <<"V", "A", "C", "A", "N", "C", "E", "S">>, <<"P", "O", "L", "I", "T", "I", "Q", "U", "E", " ", "I", "N", "T", "E", "R", "N", "A", "T", "I", "O", "N", "A", "L", "E">>,
    <<"<E-acute>", "C", "O", "N", "O", "M", "I", "E", " ", "M", "O", "N", "D", "I", "A", "L", "E">>, <<"E", "N", "V", "I", "R", "O", "N", "N", "E", "M", "E", "N", "T", " ", "G", "L", "O", "B", "A", "L">>, <<"T", "E", "M", "P", "S">>, <<"P", "R", "E", "S", "I", "D", "E", "N", "T">>,
    <<"C", "O", "M", "M", "E", "N", "T", " ", "F", "A", "I", "R", "E">> }

data_keywords == {
    <<"V", "O", "I", "X">>, <<"S", "C", "O", "R", "E">>, <<"P", "A", "R", "T", "I", "C", "I", "P", "A", "T", "I", "O", "N">>, <<"S", "I", "E", "G", "E">>, <<"E", "L", "U">>, <<"C", "A", "N", "D", "I", "D", "A", "T">>,
    <<"P", "A", "R", "T", "I">>, <<"R", "E", "G", "I", "O", "N">>, <<"T", "O", "P">>, <<"C", "L", "A", "S", "S", "E", "M", "E", "N", "T">> }

\* The forbidden set of the word scan: upper-cased, without the excepted term.
forbidden == { Upper(k) : k \in { f \in forbidden_keywords : Upper(f) # <<"I", "N", "D", "E", "P", "E", "N", "D", "A", "N", "T">> } }

AnyIn(words, text) == \E w \in words : Contains(w, text)

\* A plausible slip: the greeting rule tested before the security rules.
route_intent_greeting_first(q) ==
    LET query_up == Upper(q) IN
    IF AnyIn(salutations, query_up) THEN "GREETING"
    ELSE IF \E word \in FindAllRuns(query_up, WordClass) : word \in forbidden THEN "SECURITY"
    ELSE IF AnyIn(mots_dangereux, query_up) THEN "SECURITY"
    ELSE IF AnyIn(mots_hors_sujet, query_up) THEN "OFFTOPIC"
    ELSE "DATA"

\* A plausible slip: the off-topic vocabulary tested before the greetings.
route_intent_offtopic_first(q) ==
    LET query_up == Upper(q) IN
    IF \E word \in FindAllRuns(query_up, WordClass) : word \in forbidden THEN "SECURITY"
    ELSE IF AnyIn(mots_dangereux, query_up) THEN "SECURITY"
    ELSE IF AnyIn(mots_hors_sujet, query_up) THEN "OFFTOPIC"
    ELSE IF AnyIn(salutations, query_up) THEN "GREETING"
    ELSE "DATA"

route_intent(q) ==
    LET query_up == Upper(q) IN
    IF \E word \in FindAllRuns(query_up, WordClass) : word \in forbidden THEN "SECURITY"
    ELSE IF AnyIn(mots_dangereux, query_up) THEN "SECURITY"
    ELSE IF AnyIn(salutations, query_up) THEN "GREETING"
    ELSE IF AnyIn(mots_hors_sujet, query_up) THEN "OFFTOPIC"
    ELSE IF AnyIn(data_keywords, query_up) THEN "DATA"
    ELSE "DATA"

(***************************************************************************)
(* Questions put to the router                                             *)
(***************************************************************************)
MaxWords == 2

RouterWords == {
    <<"b", "o", "n", "j", "o", "u", "r">>, <<"S", "a", "l", "u", "t">>, <<"d", "r", "o", "p">>, <<"d", "r", "o", "p", "s">>, <<"D", "E", "L", "E", "T", "E">>, <<"i", "n", "d", "e", "p", "e", "n", "d", "a", "n", "t">>,
    <<"s", "u", "p", "p", "r", "i", "m", "e">>, <<"c", "h", "a", "n", "g", "e", "m", "e", "n", "t">>, <<"m", "<e-acute>", "t", "<e-acute>", "o">>, <<"v", "o", "i", "x">>, <<"d", "i", "v", "o", "?">>, <<"q", "u", "e", "l", " ", "t", "e", "m", "p", "s", " ", "f", "a", "i", "t", "-", "i", "l">> }

RECURSIVE Phrases(_)
Phrases(n) ==
    IF n = 0 THEN {<<>>}
    ELSE LET shorter == Phrases(n - 1) IN
         shorter \cup { IF p = <<>> THEN w ELSE p \o <<" ">> \o w :
                          p \in shorter, w \in RouterWords }

RouterQuestions == Phrases(MaxWords)

(***************************************************************************)
(* ElectionAgent.generate_sql                                              *)
(***************************************************************************)
\* What the oracle (ollama.generate) does with a request: it answers with a
\* text, answers without a usable text, or the call raises.
OracleTexts == {
    <<"S", "E", "L", "E", "C", "T", " ", "S", "U", "M", "(", "v", "o", "i", "x", ")", " ", "F", "R", "O", "M", " ", "v", "w", "_", "r", "e", "s", "u", "l", "t", "s", "_", "c", "l", "e", "a", "n">>,
    <<"<backtick>", "<backtick>", "<backtick>", "s", "q", "l", "\n", "s", "e", "l", "e", "c", "t", " ", "*", " ", "f", "r", "o", "m", " ", "v", "w", "_", "w", "i", "n", "n", "e", "r", "s", "\n", "<backtick>", "<backtick>", "<backtick>">>,
    <<"V", "o", "i", "c", "i", " ", ":", " ", "S", "E", "L", "E", "C", "T", " ", "*", " ", "F", "R", "O", "M", " ", "v", "w", "_", "r", "e", "s", "u", "l", "t", "s", "_", "c", "l", "e", "a", "n", ";", " ", "D", "R", "O", "P", " ", "T", "A", "B", "L", "E", " ", "r", "e", "s", "u", "l", "t", "s">>,
    <<"D", "R", "O", "P", " ", "T", "A", "B", "L", "E", " ", "v", "w", "_", "r", "e", "s", "u", "l", "t", "s", "_", "c", "l", "e", "a", "n">>,
    <<"S", "E", "L", "E", "C", "T", " ", "*", " ", "F", "R", "O", "M", " ", "s", "e", "c", "r", "e", "t">>,
    <<"S", "E", "L", "E", "C", "T", " ", "*", " ", "F", "R", "O", "M", " ", "s", "e", "c", "r", "e", "t", " ", "C", "R", "O", "S", "S", " ", "J", "O", "I", "N", " ", "v", "w", "_", "w", "i", "n", "n", "e", "r", "s">>,
    <<"S", "E", "L", "E", "C", "T", " ", "*", " ", "F", "R", "O", "M", " ", "r", "e", "s", "u", "l", "t", "s">>,
    <<"<sharp-s>", "S", "E", "L", "E", "C", "T", " ", "1", " ", "F", "R", "O", "M", " ", "v", "w", "_", "w", "i", "n", "n", "e", "r", "s">>,
    <<>> }

OracleOutcomes ==
    [kind : {"text"}, text : OracleTexts]
        \cup { [kind |-> "no_text", text |-> <<>>], [kind |-> "raise", text |-> <<>>] }

SELECT == <<"S", "E", "L", "E", "C", "T">>

\* The value sql starts with.
sql_default == <<"S", "E", "L", "E", "C", "T", " ", "'", "E", "r", "r", "e", "u", "r", " ", "d", "e", " ", "g", "<e-acute>", "n", "<e-acute>", "r", "a", "t", "i", "o", "n", "'", " ", "a", "s", " ", "i", "n", "f", "o", ";">>

\* The query of the except branch, for a selected value.
sql_fallback(choice) ==
    <<" ", "S", "E", "L", "E", "C", "T", " ", "*", " ", "F", "R", "O", "M", " ", "v", "w", "_", "r", "e", "s", "u", "l", "t", "s", "_", "c", "l", "e", "a", "n", " ", "W", "H", "E", "R", "E", " ", "c", "i", "r", "c", "o", "n", "s", "c", "r", "i", "p", "t", "i", "o", "n", " ", "=", " ", "'">> \o choice \o <<"'">>

context_instruction(choice) ==
    IF Truthy(choice)
    THEN <<"N", "O", "T", "E", " ", ":", " ", "L", "'", "u", "t", "i", "l", "i", "s", "a", "t", "e", "u", "r", " ", "a", " ", "s", "<e-acute>", "l", "e", "c", "t", "i", "o", "n", "n", "<e-acute>", " ", "'">> \o choice
         \o <<"'", ".", " ", "U", "t", "i", "l", "i", "s", "e", " ", "c", "e", "t", "t", "e", " ", "v", "a", "l", "e", "u", "r", " ", "e", "x", "a", "c", "t", "e", " ", "d", "a", "n", "s", " ", "l", "a", " ", "c", "l", "a", "u", "s", "e", " ", "W", "H", "E", "R", "E", " ", "s", "u", "r", " ", "l", "a", " ", "c", "o", "l", "o", "n", "n", "e", " ", "l", "a", " ", "p", "l", "u", "s", " ", "a", "d", "a", "p", "t", "<e-acute>", "e", " ", "(", "r", "e", "g", "i", "o", "n", " ", "o", "u", " ", "c", "i", "r", "c", "o", "n", "s", "c", "r", "i", "p", "t", "i", "o", "n", ")", ".">>
    ELSE <<>>

feedback_instruction(error_feedback) ==
    IF Truthy(error_feedback)
    THEN <<"C", "O", "R", "R", "I", "G", "E", " ", "C", "E", "T", "T", "E", " ", "E", "R", "R", "E", "U", "R", " ", "P", "R", "<E-acute>", "C", "<E-acute>", "D", "E", "N", "T", "E", " ", ":", " ">> \o error_feedback
    ELSE <<>>

prompt_final(q, choice) ==
    IF Truthy(choice)
    THEN <<"G", "<e-acute>", "n", "<e-grave>", "r", "e", " ", "l", "e", " ", "S", "Q", "L", " ", "p", "o", "u", "r", " ", "l", "e", " ", "c", "h", "o", "i", "x", " ", ":", " ", "'">> \o choice \o <<"'", ".", " ", "F", "i", "l", "t", "r", "e", " ", "s", "u", "r", " ", "l", "a", " ", "c", "o", "l", "o", "n", "n", "e", " ", "a", "d", "<e-acute>", "q", "u", "a", "t", "e", ".">>
    ELSE <<"Q", "u", "e", "s", "t", "i", "o", "n", " ", ":", " ">> \o q

\* The request generate_sql sends: the parts of the system prompt that vary
\* (the rest is a fixed text), and the prompt.
oracle_request(q, choice, error_feedback) ==
    [ context  |-> context_instruction(choice),
      feedback |-> feedback_instruction(error_feedback),
      prompt   |-> prompt_final(q, choice) ]

\* The cleaning of the oracle's text: fences removed, stripped, cut to start at
\* the first SELECT, whose position is taken in the upper-cased text.
extract_sql(raw_sql) ==
    LET cleaned   == Strip(RemoveEither(raw_sql, <<"<backtick>", "<backtick>", "<backtick>", "s", "q", "l">>, <<"<backtick>", "<backtick>", "<backtick>">>))
        start_idx == Find(SELECT, Upper(cleaned))
    IN IF start_idx # 0 THEN From(cleaned, start_idx) ELSE cleaned

\* generate_sql always returns a text: it has no path that raises.
generate_sql(q, choice, error_feedback, oracle) ==
    [ outcome |-> "returned",
      sql |-> CASE oracle.kind = "text" -> extract_sql(oracle.text)
                [] oracle.kind = "no_text" -> sql_default
                [] oracle.kind = "raise" ->
                     IF Truthy(choice) THEN sql_fallback(choice) ELSE sql_default ]

(***************************************************************************)
(* ElectionAgent.validate_and_execute and its run_process                  *)
(***************************************************************************)
BLOCKED == <<"<lock>", " ", "R", "e", "q", "u", "<e-circ>", "t", "e", " ", "b", "l", "o", "q", "u", "<e-acute>", "e", " ", "p", "o", "u", "r", " ", "r", "a", "i", "s", "o", "n", "s", " ", "d", "e", " ", "s", "<e-acute>", "c", "u", "r", "i", "t", "<e-acute>", ".">>

VIEW_REFUSED == <<"<warn>", "<vs16>", " ", "V", "u", "e", " ", "n", "o", "n", " ", "a", "u", "t", "o", "r", "i", "s", "<e-acute>", "e", ".">>

MSG_COLUMN == <<"D", "o", "n", "n", "<e-acute>", "e", " ", "n", "o", "n", " ", "d", "i", "s", "p", "o", "n", "i", "b", "l", "e", " ", "d", "a", "n", "s", " ", "c", "e", " ", "f", "o", "r", "m", "a", "t", ".">>

MSG_SYNTAX == <<"E", "r", "r", "e", "u", "r", " ", "d", "e", " ", "f", "o", "r", "m", "u", "l", "a", "t", "i", "o", "n", " ", "t", "e", "c", "h", "n", "i", "q", "u", "e", ".">>

MSG_OTHER == <<"A", "u", "c", "u", "n", "e", " ", "d", "o", "n", "n", "<e-acute>", "e", " ", "t", "r", "o", "u", "v", "<e-acute>", "e", ".">>

\* What the data engine does with a query: it returns a table (a sequence of
\* rows) or raises with a message.
Tables == { <<>>, <<"row">>, <<"row", "row", "row">> }

EngineErrors == {
    <<"B", "i", "n", "d", "e", "r", " ", "E", "r", "r", "o", "r", ":", " ", "R", "e", "f", "e", "r", "e", "n", "c", "e", "d", " ", "c", "o", "l", "u", "m", "n", " ", "\"", "v", "o", "t", "e", "\"", " ", "n", "o", "t", " ", "f", "o", "u", "n", "d">>,
    <<"P", "a", "r", "s", "e", "r", " ", "E", "r", "r", "o", "r", ":", " ", "s", "y", "n", "t", "a", "x", " ", "e", "r", "r", "o", "r", " ", "a", "t", " ", "e", "n", "d", " ", "o", "f", " ", "i", "n", "p", "u", "t">>,
    <<"P", "a", "r", "s", "e", "r", " ", "E", "r", "r", "o", "r", ":", " ", "S", "E", "L", "E", "C", "T", " ", "c", "l", "a", "u", "s", "e", " ", "w", "i", "t", "h", "o", "u", "t", " ", "s", "e", "l", "e", "c", "t", "i", "o", "n", " ", "l", "i", "s", "t">>,
    <<"C", "a", "t", "a", "l", "o", "g", " ", "E", "r", "r", "o", "r", ":", " ", "T", "a", "b", "l", "e", " ", "w", "i", "t", "h", " ", "n", "a", "m", "e", " ", "s", "e", "c", "r", "e", "t", " ", "d", "o", "e", "s", " ", "n", "o", "t", " ", "e", "x", "i", "s", "t", "!">>,
    <<"I", "O", " ", "E", "r", "r", "o", "r", ":", " ", "d", "a", "t", "a", "b", "a", "s", "e", " ", "f", "i", "l", "e", " ", "i", "s", " ", "l", "o", "c", "k", "e", "d">> }

EngineOutcomes ==
    [df : Tables, error : {None}] \cup [df : {None}, error : EngineErrors]

\* A plausible slip: the query closed with its terminator but not cut at the
\* first one.
clean_for_gate_uncut(generated) ==
    LET unfenced    == Remove(Remove(generated, <<"<backtick>", "<backtick>", "<backtick>", "s", "q", "l">>), <<"<backtick>", "<backtick>", "<backtick>">>)
        start_index == Find(SELECT, Upper(unfenced))
        cut         == IF start_index # 0 THEN Strip(From(unfenced, start_index)) ELSE unfenced
    IN cut \o <<";">>

\* run_process, after generate_sql: the query as cleaned for the gate.
clean_for_gate(generated) ==
    LET unfenced    == Remove(Remove(generated, <<"<backtick>", "<backtick>", "<backtick>", "s", "q", "l">>), <<"<backtick>", "<backtick>", "<backtick>">>)
        start_index == Find(SELECT, Upper(unfenced))
        cut         == IF start_index # 0 THEN Strip(From(unfenced, start_index)) ELSE unfenced
    IN BeforeFirst(cut, ";") \o <<";">>

\* A plausible slip: the gate without its test of the statement.
gate_is_select_dropped(q) == TRUE

gate_is_select(q) == StartsWith(Upper(q), SELECT)

gate_has_view(q) == \E view \in allowed_views : Contains(Upper(view), Upper(q))

\* A plausible slip: a retry after any error.
retry_wanted_any_error(err) == Truthy(err)

\* The test of the retry in validate_and_execute.
retry_wanted(err) ==
    /\ Truthy(err)
    /\ \/ Contains(<<"c", "o", "l", "u", "m", "n">>, Lower(err))
       \/ Contains(<<"s", "y", "n", "t", "a", "x">>, Lower(err))
       \/ Contains(<<"p", "a", "r", "s", "e", "r">>, Lower(err))

\* A plausible slip: the error handed back as the engine worded it.
user_msg_untranslated(err) == err

\* The translation of an error for the user.
user_msg(err) ==
    LET error_msg == Lower(err) IN
    IF Contains(<<"c", "o", "l", "u", "m", "n">>, error_msg) THEN MSG_COLUMN
    ELSE IF Contains(<<"s", "y", "n", "t", "a", "x">>, error_msg) THEN MSG_SYNTAX
    ELSE MSG_OTHER

\* run_process, first half: the call of generate_sql.
RunGenerate(at, next, error_feedback) ==
    /\ pc = at
    /\ \E oracle \in oracle_behaviour :
         LET generated == generate_sql(user_question, context_choice, error_feedback, oracle) IN
         /\ sql' = generated.sql
         /\ runs' = Append(runs, [ request   |-> oracle_request(user_question, context_choice,
                                                                 error_feedback),
                                   oracle    |-> oracle,
                                   outcome   |-> generated.outcome,
                                   generated |-> generated.sql,
                                   sql       |-> None,
                                   verdict   |-> "pending",
                                   df        |-> None,
                                   error     |-> None ])
    /\ pc' = next

\* run_process, second half, for the cleaned query q: the gate refuses it, or the
\* engine runs it and returns a table or raises (error is then str(e)).
run_results(q, engines) ==
    IF ~gate_is_select(q)
    THEN { [df |-> None, sql |-> q, error |-> BLOCKED, verdict |-> "not_select"] }
    ELSE IF ~gate_has_view(q)
    THEN { [df |-> None, sql |-> q, error |-> VIEW_REFUSED, verdict |-> "no_view"] }
    ELSE { [df |-> engine.df, sql |-> q, error |-> engine.error, verdict |-> "executed"] :
             engine \in engines }

\* The record of the run in progress, completed with the result r.
Completed(r) ==
    [runs EXCEPT ![Len(runs)] = [@ EXCEPT !.sql = r.sql, !.verdict = r.verdict,
                                          !.df = r.df, !.error = r.error]]

Generate1 ==
    /\ RunGenerate("run1_generate", "run1_gate", None)
    /\ UNCHANGED <<envVars, normVars, narrVars, appVars, routeVars, ambVars, user_question, context_choice, df, final_sql, error,
                   df_corr, sql_corr, error_corr, ret>>

\* df, final_sql, error = run_process(user_question, context_choice)
Gate1 ==
    /\ pc = "run1_gate"
    /\ \E r \in run_results(clean_for_gate(sql), engine_behaviour) :
         /\ sql' = r.sql
         /\ df' = r.df
         /\ final_sql' = r.sql
         /\ error' = r.error
         /\ runs' = Completed(r)
    /\ pc' = "after_run1"
    /\ UNCHANGED <<envVars, normVars, narrVars, appVars, routeVars, ambVars, user_question, context_choice, df_corr, sql_corr,
                   error_corr, ret>>

\* The first result asks for the retry.
Retry ==
    /\ pc = "after_run1"
    /\ retry_wanted(error)
    /\ pc' = "run2_generate"
    /\ UNCHANGED <<envVars, normVars, narrVars, appVars, routeVars, ambVars, execVars>>

Generate2 ==
    /\ RunGenerate("run2_generate", "run2_gate", error)
    /\ UNCHANGED <<envVars, normVars, narrVars, appVars, routeVars, ambVars, user_question, context_choice, df, final_sql, error,
                   df_corr, sql_corr, error_corr, ret>>

\* df_corr, sql_corr, error_corr = run_process(..., feedback=error), and the
\* else branch that follows it: error = error_corr.
Gate2 ==
    /\ pc = "run2_gate"
    /\ \E r \in run_results(clean_for_gate(sql), engine_behaviour) :
         /\ sql' = r.sql
         /\ df_corr' = r.df
         /\ sql_corr' = r.sql
         /\ error_corr' = r.error
         /\ error' = IF Truthy(r.error) THEN r.error ELSE error
         /\ runs' = Completed(r)
    /\ pc' = "after_run2"
    /\ UNCHANGED <<envVars, normVars, narrVars, appVars, routeVars, ambVars, user_question, context_choice, df, final_sql, ret>>

\* The retry succeeded: its result is returned.
ReturnCorrected ==
    /\ pc = "after_run2"
    /\ ~Truthy(error_corr)
    /\ ret' = <<df_corr, sql_corr, None>>
    /\ pc' = "returned"
    /\ UNCHANGED <<envVars, normVars, narrVars, appVars, routeVars, ambVars, user_question, context_choice, sql, df, final_sql, error,
                   df_corr, sql_corr, error_corr, runs>>

\* No retry, or a retry that failed: the error, translated, or the table.
ReturnFirst ==
    /\ \/ pc = "after_run1" /\ ~retry_wanted(error)
       \/ pc = "after_run2" /\ Truthy(error_corr)
    /\ ret' = IF Truthy(error) THEN <<None, final_sql, user_msg(error)>>
              ELSE <<df, final_sql, None>>
    /\ pc' = "returned"
    /\ UNCHANGED <<envVars, normVars, narrVars, appVars, routeVars, ambVars, user_question, context_choice, sql, df, final_sql, error,
                   df_corr, sql_corr, error_corr, runs>>

validate_and_execute == Generate1 \/ Gate1 \/ Retry \/ Generate2 \/ Gate2
                            \/ ReturnCorrected \/ ReturnFirst

(***************************************************************************)
(* ElectionAgent.check_ambiguity: clean_input and extract_entity           *)
(***************************************************************************)
Accented == <<"<e-acute>", "<e-grave>", "<e-circ>", "<a-grave>", "<c-cedil>", "<i-circ>", "<E-acute>", "<E-grave>", "<E-circ>", "<A-grave>", "<C-cedil>", "<I-circ>">>

Unaccented == <<"e", "e", "e", "a", "c", "i", "E", "E", "E", "A", "C", "I">>

\* unicodedata.normalize('NFD', c) without its combining marks (category Mn):
\* the base letter of an accented letter, nothing for a mark.
strip_marks(c) ==
    IF c \in Range(Accented) THEN <<Unaccented[IndexIn(c, Accented)]>>
    ELSE IF c = "<vs16>" THEN <<>>
    ELSE <<c>>

RECURSIVE unaccent(_)
unaccent(s) ==
    IF s = <<>> THEN <<>>
    ELSE IF Len(s) = 1 THEN strip_marks(s[1])
    ELSE LET half == Len(s) \div 2 IN
         unaccent(SubSeq(s, 1, half)) \o unaccent(SubSeq(s, half + 1, Len(s)))

clean_input(text) == Strip(Upper(unaccent(text)))

UpperAZ == Range(<<"A", "B", "C", "D", "E", "F", "G", "H", "I", "J", "K", "L", "M", "N", "O", "P", "Q", "R", "S", "T", "U", "V", "W", "X", "Y", "Z">>)

LowerAZ == Range(<<"a", "b", "c", "d", "e", "f", "g", "h", "i", "j", "k", "l", "m", "n", "o", "p", "q", "r", "s", "t", "u", "v", "w", "x", "y", "z">>)

\* The class [A-Z\s\-\''] of the captured group, under re.IGNORECASE.
GroupClass == UpperAZ \cup LowerAZ \cup Whitespace \cup {"-", "'"}

region == <<"r", "e", "g", "i", "o", "n">>

circonscription == <<"c", "i", "r", "c", "o", "n", "s", "c", "r", "i", "p", "t", "i", "o", "n">>

candidat == <<"c", "a", "n", "d", "i", "d", "a", "t">>

\* The patterns of extract_entity in the order the dictionary gives them. Each is
\* a literal (one of lits), separators (sep)+, with opt the optional
\* (?:D[EUA']\s+), then the captured group.
patterns == <<
    [type |-> region, lits |-> { <<"R", "E", "G", "I", "O", "N">>, <<"R", "<E-acute>", "G", "I", "O", "N">> },
     sep |-> Whitespace \cup {":"}, opt |-> TRUE],
    [type |-> circonscription, lits |-> { <<"C", "O", "M", "M", "U", "N", "E">> }, sep |-> Whitespace, opt |-> TRUE],
    [type |-> circonscription, lits |-> { <<"C", "I", "R", "C", "O", "N", "S", "C", "R", "I", "P", "T", "I", "O", "N">> },
     sep |-> Whitespace, opt |-> TRUE],
    [type |-> circonscription, lits |-> { <<"<A-grave>">> }, sep |-> Whitespace, opt |-> FALSE],
    [type |-> circonscription, lits |-> { <<"P", "O", "U", "R">> }, sep |-> Whitespace, opt |-> FALSE],
    [type |-> candidat, lits |-> { <<"C", "A", "N", "D", "I", "D", "A", "T">> }, sep |-> Whitespace, opt |-> FALSE],
    [type |-> candidat, lits |-> { <<"M", ".">>, <<"M", "O", "N", "S", "I", "E", "U", "R">>, <<"M", "M", "E">>, <<"M", "A", "D", "A", "M", "E">> },
     sep |-> Whitespace, opt |-> FALSE] >>

NoMatch == [matched |-> FALSE, group |-> <<>>]

\* The group captured from position g on: the longest run of its class.
Captured(s, g) == [matched |-> TRUE, group |-> SubSeq(s, g, RunEnd(s, g, GroupClass))]

MaxOf(S) == CHOOSE x \in S : \A y \in S : y <= x

MinOf(S) == CHOOSE x \in S : \A y \in S : x <= y

\* The rest of pattern p matched in s from position a on, where its literal
\* ended, as the backtracking matcher does it: the separators and the optional
\* part take all they can, and give back only what the group needs.
match_rest(p, s, a) ==
    LET b        == RunEnd(s, a, p.sep)
        g0       == b + 1
        InGroup(k) == k <= Len(s) /\ s[k] \in GroupClass
        optHead  == p.opt /\ g0 + 1 <= Len(s) /\ s[g0] = "D" /\ s[g0 + 1] \in {"E", "U", "A", "'"}
        w        == IF optHead THEN RunEnd(s, g0 + 2, Whitespace) ELSE 0
        optMatch == optHead /\ w >= g0 + 2
        giveBack == { k \in (a + 1)..b : s[k] \in Whitespace }
    IN IF b < a THEN NoMatch
       ELSE IF optMatch /\ InGroup(w + 1) THEN Captured(s, w + 1)
       ELSE IF optMatch /\ w >= g0 + 3 THEN Captured(s, w)
       ELSE IF InGroup(g0) THEN Captured(s, g0)
       ELSE IF giveBack # {} THEN Captured(s, MaxOf(giveBack))
       ELSE NoMatch

\* Pattern p matches in s at position i.
match_at(p, s, i) ==
    IF \E lit \in p.lits : OccursAt(lit, s, i) /\ match_rest(p, s, i + Len(lit)).matched
    THEN match_rest(p, s, i + Len(CHOOSE lit \in p.lits :
                                     OccursAt(lit, s, i) /\ match_rest(p, s, i + Len(lit)).matched))
    ELSE NoMatch

\* re.search(p, s): the match at the leftmost position that has one.
search(p, s) ==
    LET hits == { i \in 1..Len(s) : match_at(p, s, i).matched } IN
    IF hits = {} THEN NoMatch ELSE match_at(p, s, MinOf(hits))

stop_words == {
    <<"D", "A", "N", "S">>, <<"P", "O", "U", "R">>, <<"A", "V", "E", "C">>, <<"S", "U", "R">>, <<"A", "U", "X">>, <<"D", "E", "S">>, <<"D", "U">>, <<"D", "E">>, <<"L", "A">>, <<"L", "E">>, <<"L", "E", "S">>,
    <<"E", "S", "T">>, <<"A">>, <<"<A-grave>">>, <<"E", "T">>, <<"R", "<E-acute>", "S", "U", "L", "T", "A", "T", "S">>, <<"<E-acute>", "L", "E", "C", "T", "I", "O", "N", "S">> }

\* str.split(): the words between runs of whitespace.
RECURSIVE SplitWords(_)
SplitWords(s) ==
    LET t == LStrip(s) IN
    IF t = <<>> THEN <<>>
    ELSE LET e == RunEnd(t, 1, Range(t) \ Whitespace) IN
         <<SubSeq(t, 1, e)>> \o SplitWords(From(t, e + 1))

\* extract_entity: <<term, type>>, of the first pattern that matches, or of the
\* last word that is no stop word.
extract_entity(query_text) ==
    LET q == Upper(query_text)
        matching == { n \in 1..Len(patterns) : search(patterns[n], q).matched }
        Kept(w) == w \notin stop_words /\ Len(w) >= 2
        words == SelectSeq(SplitWords(Remove(q, <<"?">>)), Kept)
    IN IF matching # {}
       THEN <<Strip(search(patterns[MinOf(matching)], q).group), patterns[MinOf(matching)].type>>
       ELSE <<IF words # <<>> THEN Last(words) ELSE None, None>>

(***************************************************************************)
(* ElectionAgent.check_ambiguity: the lookup in the data and the return    *)
(***************************************************************************)
Min3(a, b, c) == IF a <= b /\ a <= c THEN a ELSE IF b <= c THEN b ELSE c

\* One row of the edit-distance table, for the character c of the first text,
\* from the row before it (prev) and the cells of this row so far (cur).
RECURSIVE lev_row(_, _, _, _)
lev_row(prev, c, b, cur) ==
    IF Len(cur) = Len(b) + 1 THEN cur
    ELSE LET j == Len(cur) IN
         lev_row(prev, c, b,
                 Append(cur, Min3(prev[j + 1] + 1, cur[j] + 1,
                                  prev[j] + (IF c = b[j] THEN 0 ELSE 1))))

\* The last row of the table after the rows lo..hi, from the row before them.
RECURSIVE lev_rows(_, _, _, _, _)
lev_rows(a, b, lo, hi, prev) ==
    IF lo > hi THEN prev
    ELSE IF lo = hi THEN lev_row(prev, a[lo], b, <<prev[1] + 1>>)
    ELSE LET mid == (lo + hi) \div 2
             first == lev_rows(a, b, lo, mid, prev)
         IN IF Len(first) = Len(prev) THEN lev_rows(a, b, mid + 1, hi, first) ELSE <<>>
levenshtein(a, b) == Last(lev_rows(a, b, 1, Len(a), [j \in 1..(Len(b) + 1) |-> j - 1]))

\* The threshold of the edit distance in the lookup.
max_distance == 2

\* LIMIT of the lookup.
lookup_limit == 3

\* a ILIKE b for a pattern b without wildcard: equal whatever the case.
ilike(a, b) == Len(a) = Len(b) /\ \A k \in 1..Len(a) : UpperChar(a[k]) = UpperChar(b[k])

\* string_split(v, ' '): the parts between single spaces.
RECURSIVE string_split(_)
string_split(v) ==
    IF " " \in Range(v)
    THEN <<BeforeFirst(v, " ")>> \o string_split(From(v, Find(<<" ">>, v) + 1))
    ELSE <<v>>

\* The WHERE clause of the lookup, for a value v of the column and the term
\* (which holds no wildcard).
lookup_matches(v, term) ==
    \/ ContainsAnyCase(term, v)
    \/ levenshtein(v, Upper(term)) <= max_distance
    \/ \E part \in Range(string_split(v)) : ilike(part, Upper(term))

\* What the lookup may return for a column holding values: the matching values,
\* shortest first, at most lookup_limit of them; the engine orders values of the
\* same length as it likes.
lookup_results(values, term) ==
    LET M == { v \in values : lookup_matches(v, term) }
        n == IF Cardinality(M) < lookup_limit THEN Cardinality(M) ELSE lookup_limit
    IN { res \in [1..n -> M] :
           /\ \A i, j \in 1..n : i < j => res[i] # res[j] /\ Len(res[i]) <= Len(res[j])
           /\ \A v \in M \ Range(res) : \A i \in 1..n : Len(res[i]) <= Len(v) }

\* str.capitalize()
capitalize(s) ==
    IF s = <<>> THEN <<>> ELSE UpperChar(Head(s)) \o Lower(Tail(s))

\* The columns to scan, each with its label.
scan_columns(e_type) ==
    IF Truthy(e_type)
    THEN << <<e_type, capitalize(e_type)>> >>
    ELSE << <<region, <<"R", "<e-acute>", "g", "i", "o", "n">>>>, <<circonscription, <<"C", "i", "r", "c", "o", "n", "s", "c", "r", "i", "p", "t", "i", "o", "n">>>>,
            <<candidat, <<"C", "a", "n", "d", "i", "d", "a", "t">>>> >>

\* list(dict.fromkeys(s)): the first occurrence of each element, in order.
RECURSIVE Dedup(_)
Dedup(s) ==
    IF s = <<>> THEN <<>>
    ELSE LET init == Dedup(SubSeq(s, 1, Len(s) - 1)) IN
         IF Last(s) \in Range(init) THEN init ELSE Append(init, Last(s))

\* s.split(sep)
RECURSIVE SplitOn(_, _)
SplitOn(s, sep) ==
    IF Contains(sep, s)
    THEN <<SubSeq(s, 1, Find(sep, s) - 1)>> \o SplitOn(From(s, Find(sep, s) + Len(sep)), sep)
    ELSE <<s>>

\* The data: the values each of the three columns holds.
Data(regions, circonscriptions, candidats) ==
    [col \in {region, circonscription, candidat} |->
        IF col = region THEN regions
        ELSE IF col = circonscription THEN circonscriptions
        ELSE candidats]

NoData == Data({}, {}, {})

NoAnswer == [kind |-> "None", old |-> None, new |-> None, column |-> None, choices |-> <<>>]

Pending == [NoAnswer EXCEPT !.kind = "pending"]

\* The locals of a call that has not started.
ExecFresh ==
    /\ sql = None
    /\ df = None
    /\ final_sql = None
    /\ error = None
    /\ df_corr = None
    /\ sql_corr = None
    /\ error_corr = None
    /\ ret = None
    /\ runs = <<>>

\* The variables of check_ambiguity before it is called.
AmbFresh ==
    /\ found_keyword = None
    /\ entity_type = None
    /\ cols = <<>>
    /\ options = <<>>
    /\ amb = Pending
    /\ lookups = <<>>

\* A plausible slip: the first option taken as soon as there is one.
ambiguity_result_first_wins(keyword, opts) ==
    LET unique_options == Dedup(opts) IN
    IF Len(unique_options) >= 1
    THEN LET parts == SplitOn(unique_options[1], <<":", " ">>) IN
         [kind |-> "Resolved", old |-> keyword, new |-> parts[2],
          column |-> Lower(parts[1]), choices |-> <<>>]
    ELSE NoAnswer

\* The end of check_ambiguity, for the options gathered.
ambiguity_result(keyword, opts) ==
    LET unique_options == Dedup(opts) IN
    IF Len(unique_options) = 1
    THEN LET parts == SplitOn(unique_options[1], <<":", " ">>) IN
         [kind |-> "Resolved", old |-> keyword, new |-> parts[2],
          column |-> Lower(parts[1]), choices |-> <<>>]
    ELSE IF Len(unique_options) > 1
    THEN [NoAnswer EXCEPT !.kind = "Choices", !.choices = unique_options]
    ELSE NoAnswer

\* clean_input, extract_entity and the early return.
AmbExtract ==
    /\ pc = "amb_extract"
    /\ LET extracted == extract_entity(clean_input(query)) IN
       /\ found_keyword' = extracted[1]
       /\ entity_type' = extracted[2]
       /\ IF Truthy(extracted[1])
          THEN /\ cols' = scan_columns(extracted[2])
               /\ pc' = "amb_scan"
               /\ amb' = amb
          ELSE /\ cols' = <<>>
               /\ pc' = "amb_returned"
               /\ amb' = NoAnswer
    /\ options' = <<>>
    /\ lookups' = <<>>
    /\ UNCHANGED <<envVars, normVars, narrVars, appVars, db, routeVars, execVars>>

\* One turn of the loop over the columns: the lookup answers.
AmbLookup ==
    /\ pc = "amb_scan"
    /\ cols # <<>>
    /\ LET col == Head(cols)[1]
           label == Head(cols)[2]
       IN \E res \in lookup_results(db[col], found_keyword) :
            /\ options' = options \o [i \in 1..Len(res) |-> label \o <<":", " ">> \o res[i]]
            /\ lookups' = Append(lookups, [col |-> col, failed |-> FALSE, values |-> res])
    /\ cols' = Tail(cols)
    /\ UNCHANGED <<envVars, normVars, narrVars, appVars, pc, db, found_keyword, entity_type, amb, query, intent, execVars>>

\* A plausible slip: a lookup that raises ends the scan of the columns.
AmbLookupFails_ends_scan ==
    /\ pc = "amb_scan"
    /\ cols # <<>>
    /\ lookups' = Append(lookups, [col |-> Head(cols)[1], failed |-> TRUE, values |-> <<>>])
    /\ cols' = <<>>
    /\ UNCHANGED <<envVars, normVars, narrVars, appVars, pc, db, found_keyword, entity_type, options, amb, query, intent, execVars>>

\* One turn of the loop over the columns: the lookup raises, and is skipped.
AmbLookupFails ==
    /\ pc = "amb_scan"
    /\ cols # <<>>
    /\ lookups' = Append(lookups, [col |-> Head(cols)[1], failed |-> TRUE, values |-> <<>>])
    /\ cols' = Tail(cols)
    /\ UNCHANGED <<envVars, normVars, narrVars, appVars, pc, db, found_keyword, entity_type, options, amb, query, intent, execVars>>

\* After the loop: the options are deduplicated and counted.
AmbReturn ==
    /\ pc = "amb_scan"
    /\ cols = <<>>
    /\ amb' = ambiguity_result(found_keyword, options)
    /\ pc' = "amb_returned"
    /\ UNCHANGED <<envVars, normVars, narrVars, appVars, db, found_keyword, entity_type, cols, options, lookups, query, intent,
                   execVars>>

check_ambiguity == AmbExtract \/ AmbLookup \/ AmbLookupFails \/ AmbReturn

(***************************************************************************)
(* ElectionAgent.generate_greeting and generate_narrative                  *)
(***************************************************************************)
greeting_fallback == <<"B", "o", "n", "j", "o", "u", "r", " ", "!", " ", "A", "s", "s", "i", "s", "t", "a", "n", "t", " ", "<e-acute>", "l", "e", "c", "t", "o", "r", "a", "l", " ", "2", "0", "2", "5", ".", " ", "A", "n", "a", "l", "y", "s", "e", " ", "d", "e", "s", " ", "r", "<e-acute>", "s", "u", "l", "t", "a", "t", "s", " ", "l", "<e-acute>", "g", "i", "s", "l", "a", "t", "i", "f", "s", ".">>

\* What the oracle does with the request of generate_greeting.
GreetingOutcomes == {
    [kind |-> "text", text |-> <<" ", "B", "o", "n", "j", "o", "u", "r", ",", " ", "p", "o", "s", "e", "z", " ", "v", "o", "t", "r", "e", " ", "q", "u", "e", "s", "t", "i", "o", "n", ".", "\n">>],
    [kind |-> "raise", text |-> <<>>] }

\* generate_greeting without its cache: the oracle's text, stripped, or the fixed
\* greeting when the call raises.
generate_greeting(user_query, oracle) ==
    IF oracle.kind = "text" THEN Strip(oracle.text) ELSE greeting_fallback

\* The cache of generate_greeting: pairs of a question and the reply kept for it.
Cached(user_query) == \E e \in greeting_cache : e[1] = user_query

CachedReply(user_query) == (CHOOSE e \in greeting_cache : e[1] = user_query)[2]

Digits == <<"0", "1", "2", "3", "4", "5", "6", "7", "8", "9">>

\* str(n) for a natural number
RECURSIVE str(_)
str(n) == IF n < 10 THEN <<Digits[n + 1]>> ELSE str(n \div 10) \o <<Digits[(n % 10) + 1]>>

no_data_chunk == <<"A", "u", "c", "u", "n", "e", " ", "d", "o", "n", "n", "<e-acute>", "e", " ", "n", "e", " ", "c", "o", "r", "r", "e", "s", "p", "o", "n", "d", " ", "<a-grave>", " ", "v", "o", "t", "r", "e", " ", "r", "e", "c", "h", "e", "r", "c", "h", "e", ".">>

narrative_fallback(table) == <<"D", "o", "n", "n", "<e-acute>", "e", "s", " ", "r", "<e-acute>", "c", "u", "p", "<e-acute>", "r", "<e-acute>", "e", "s", ":", " ">> \o str(Len(table)) \o <<" ", "r", "<e-acute>", "s", "u", "l", "t", "a", "t", "(", "s", ")", ".">>

\* What the oracle's stream does: it yields chunks, then ends or raises. A chunk
\* that holds no 'response' key is None.
StreamOutcomes == {
    [chunks |-> << <<"L", "e", " ", "R", "H", "D", "P", " ", "a", " ", "o", "b", "t", "e", "n", "u", " ">>, <<"3", " ", "v", "o", "i", "x", ".">> >>, raises |-> FALSE],
    [chunks |-> << <<"L", "e", " ", "R", "H", "D", "P", " ", "a", " ", "o", "b", "t", "e", "n", "u", " ">>, None, <<"3", " ", "v", "o", "i", "x", ".">>, None >>, raises |-> FALSE],
    [chunks |-> << <<"3", " ", "v", "o", "i", "x", ".">> >>, raises |-> FALSE],
    [chunks |-> <<>>, raises |-> FALSE],
    [chunks |-> << <<"L", "e", " ", "R", "H", "D", "P">> >>, raises |-> TRUE],
    [chunks |-> <<>>, raises |-> TRUE] }

\* What generate_narrative sends to the oracle: the parts of the system prompt
\* that vary (the number of rows and the preview of the first three), and the
\* prompt.
narrative_request(question, table) ==
    [ rows    |-> Len(table),
      preview |-> SubSeq(table, 1, IF Len(table) < 3 THEN Len(table) ELSE 3),
      prompt  |-> question ]

\* One call of the oracle by generate_narrative: what was sent, and what the
\* stream then did.
narrative_call(question, table, stream) ==
    [ request |-> narrative_request(question, table), stream |-> stream ]

\* A plausible slip: the oracle called before the rows are looked at.
generate_narrative_oracle_first(question, table, stream) ==
    [ chunks |-> IF table = None \/ table = <<>> THEN << no_data_chunk >>
                 ELSE stream.chunks \o (IF stream.raises THEN << narrative_fallback(table) >>
                                        ELSE <<>>),
      calls  |-> << narrative_call(question, IF table = None THEN <<>> ELSE table, stream) >> ]

\* A plausible slip: a failure of the stream ends the chunks without a word.
generate_narrative_silent_failure(question, table, stream) ==
    LET HasResponse(chunk) == chunk # None IN
    IF table = None \/ table = <<>>
    THEN [ chunks |-> << no_data_chunk >>, calls |-> <<>> ]
    ELSE [ chunks |-> SelectSeq(stream.chunks, HasResponse),
           calls  |-> << narrative_call(question, table, stream) >> ]

\* generate_narrative, run to its end: the chunks it yields and the requests it
\* sent to the oracle.
generate_narrative(question, table, stream) ==
    LET HasResponse(chunk) == chunk # None IN
    IF table = None \/ table = <<>>
    THEN [ chunks |-> << no_data_chunk >>, calls |-> <<>> ]
    ELSE [ chunks |-> SelectSeq(stream.chunks, HasResponse)
                        \o (IF stream.raises THEN << narrative_fallback(table) >> ELSE <<>>),
           calls  |-> << narrative_call(question, table, stream) >> ]

\* The variables of generate_narrative before it is called.
NarrFresh ==
    /\ narration = <<>>
    /\ narrative_calls = <<>>

\* "".join(chunks)
RECURSIVE Join(_)
Join(chunks) == IF chunks = <<>> THEN <<>> ELSE Head(chunks) \o Join(Tail(chunks))

(***************************************************************************)
(* The chat script (appN3.py): the session and the runs of the script      *)
(***************************************************************************)
\* The questions typed within one session.
MaxCount == 2

AppQuestions == { <<"b", "o", "n", "j", "o", "u", "r", " ", "d", "r", "o", "p">>, <<"S", "a", "l", "u", "t">>, <<"m", "<e-acute>", "t", "<e-acute>", "o">>, <<"s", "c", "o", "r", "e", " ", "D", "i", "v", "o">>, <<"t", "o", "p", " ", "3">> }

\* The aliases of the session's schema.
SessionAliases ==
    << Aliases(<<"R", "H", "D", "P">>, << <<"R", "H", "D", "P">>, <<"H", "o", "u", "p", "h", "o", "u", "e", "t", "i", "s", "t", "e", "s">> >>),
       Aliases(<<"P", "D", "C", "I", "-", "R", "D", "A">>, << <<"P", "D", "C", "I">> >>) >>

\* The data of the session.
AppData ==
    Data({ <<"G", "O", "H">>, <<"T", "O", "N", "K", "P", "I">> }, { <<"D", "I", "V", "O", ",", " ", "C", "O", "M", "M", "U", "N", "E">>, <<"M", "A", "N", ",", " ", "C", "O", "M", "M", "U", "N", "E">> }, { <<"C", "H", "A", "N", "G", "E", "R", " ", "D", "I", "V", "O">>, <<"Y", "A", "O">> })

\* What the oracle of generate_sql and the engine may do within the session.
SessionOracleOutcomes == {
    [kind |-> "text", text |-> <<"S", "E", "L", "E", "C", "T", " ", "S", "U", "M", "(", "v", "o", "i", "x", ")", " ", "F", "R", "O", "M", " ", "v", "w", "_", "r", "e", "s", "u", "l", "t", "s", "_", "c", "l", "e", "a", "n">>],
    [kind |-> "text", text |-> <<"D", "R", "O", "P", " ", "T", "A", "B", "L", "E", " ", "v", "w", "_", "r", "e", "s", "u", "l", "t", "s", "_", "c", "l", "e", "a", "n">>],
    [kind |-> "raise", text |-> <<>>] }

SessionEngineOutcomes == {
    [df |-> <<"row", "row", "row">>, error |-> None],
    [df |-> <<>>, error |-> None],
    [df |-> None, error |-> <<"B", "i", "n", "d", "e", "r", " ", "E", "r", "r", "o", "r", ":", " ", "R", "e", "f", "e", "r", "e", "n", "c", "e", "d", " ", "c", "o", "l", "u", "m", "n", " ", "\"", "v", "o", "t", "e", "\"", " ", "n", "o", "t", " ", "f", "o", "u", "n", "d">>],
    [df |-> None, error |-> <<"I", "O", " ", "E", "r", "r", "o", "r", ":", " ", "d", "a", "t", "a", "b", "a", "s", "e", " ", "f", "i", "l", "e", " ", "i", "s", " ", "l", "o", "c", "k", "e", "d">>] }

OFFTOPIC_MSG == <<"<cross>", " ", "H", "o", "r", "s", " ", "s", "u", "j", "e", "t", " ", "p", "a", "r", " ", "r", "a", "p", "p", "o", "r", "t", " ", "a", "u", "x", " ", "<e-acute>", "l", "e", "c", "t", "i", "o", "n", "s", " ", "l", "<e-acute>", "g", "i", "s", "l", "a", "t", "i", "v", "e", "s", " ", "2", "0", "2", "5", ".">>

NO_ROWS_MSG == <<"D", "<e-acute>", "s", "o", "l", "<e-acute>", ",", " ", "a", "u", "c", "u", "n", "e", " ", "d", "o", "n", "n", "<e-acute>", "e", " ", "t", "r", "o", "u", "v", "<e-acute>", "e", ".">>

Resultats(value) == <<"R", "<e-acute>", "s", "u", "l", "t", "a", "t", "s", " ", "p", "o", "u", "r", " ">> \o value

User(content) == [role |-> "user", content |-> content]

\* An entry of the assistant; its keys sql and plotly_fig, which the script only
\* displays, are left out.
Assistant(content) == [role |-> "assistant", content |-> content]

\* The session before the first question. An absent options list and an empty
\* one, which the script does not tell apart, are both <<>>.
AppFresh ==
    /\ history = <<>>
    /\ context = None
    /\ session_options = <<>>
    /\ count = 0
    /\ last_query = None
    /\ ambiguous_term = None
    /\ greeting_cache = {}
    /\ greeting_calls = <<>>
    /\ typed = None

\* The reply to a question that is no DATA question.
messages(i, greeting) ==
    CASE i = "GREETING" -> greeting
      [] i = "SECURITY" -> BLOCKED
      [] i = "OFFTOPIC" -> OFFTOPIC_MSG

\* A plausible slip: SECURITY left out of the intents answered at once.
dispatch_security_as_data(i) ==
    IF i \in {"GREETING", "OFFTOPIC"} THEN "intent_answer" ELSE "data"

\* Where the script goes with the intent.
dispatch(i) ==
    IF i \in {"GREETING", "SECURITY", "OFFTOPIC"} THEN "intent_answer"
    ELSE IF i = "DATA" THEN "data"
    ELSE "idle"

\* A plausible slip: the question appended without the session being cleared.
ChatInput_keeps_session ==
    /\ pc = "idle"
    /\ count < MaxCount
    /\ \E user_input \in AppQuestions :
         /\ history' = Append(history, User(user_input))
         /\ typed' = user_input
    /\ count' = count + 1
    /\ pc' = "process"
    /\ UNCHANGED <<envVars, normVars, narrVars, context, session_options, last_query, ambiguous_term,
                   greeting_cache, greeting_calls, routeVars, ambVars, execVars>>

\* The user types a question: the script run that finds it in the chat input.
ChatInput ==
    /\ pc = "idle"
    /\ count < MaxCount
    /\ \E user_input \in AppQuestions :
         /\ history' = Append(history, User(user_input))
         /\ typed' = user_input
    /\ context' = None
    /\ session_options' = <<>>
    /\ count' = count + 1
    /\ pc' = "process"
    /\ UNCHANGED <<envVars, normVars, narrVars, last_query, ambiguous_term, greeting_cache, greeting_calls, routeVars,
                   ambVars, execVars>>

\* The user clicks the reset button of the sidebar.
ResetChat ==
    /\ pc = "idle"
    /\ history' = <<>>
    /\ context' = None
    /\ session_options' = <<>>
    /\ UNCHANGED <<envVars, normVars, narrVars, pc, count, last_query, ambiguous_term, greeting_cache, greeting_calls, typed,
                   routeVars, ambVars, execVars>>

\* The processing starts: the last entry is the user's, and it is routed.
AppRoute ==
    /\ pc = "process"
    /\ history # <<>> /\ Last(history).role = "user"
    /\ query' = Last(history).content
    /\ intent' = route_intent(query')
    /\ pc' = dispatch(intent')
    /\ UNCHANGED <<envVars, normVars, narrVars, appVars, ambVars, execVars>>

\* GREETING, SECURITY, OFFTOPIC: the dictionary of the replies is built, which
\* calls generate_greeting whatever the intent, and the reply is appended.
AnswerIntent ==
    /\ pc = "intent_answer"
    /\ \E oracle \in GreetingOutcomes :
         LET greeting == IF Cached(query) THEN CachedReply(query)
                         ELSE generate_greeting(query, oracle)
         IN /\ greeting_cache' = greeting_cache \cup { <<query, greeting>> }
            /\ greeting_calls' = IF Cached(query) THEN greeting_calls
                                 ELSE Append(greeting_calls, query)
            /\ history' = Append(history, Assistant(messages(intent, greeting)))
    /\ pc' = "answered"
    /\ UNCHANGED <<envVars, normVars, narrVars, context, session_options, count, last_query, ambiguous_term, typed,
                   routeVars, ambVars, execVars>>

\* DATA, with neither a context nor options: check_ambiguity is called.
DataCheckAmbiguity ==
    /\ pc = "data"
    /\ ~Truthy(context) /\ session_options = <<>>
    /\ pc' = "amb_extract"
    /\ UNCHANGED <<envVars, normVars, narrVars, appVars, routeVars, ambVars, execVars>>

\* DATA, with a context or options: check_ambiguity is skipped.
DataSkipAmbiguity ==
    /\ pc = "data"
    /\ Truthy(context) \/ session_options # <<>>
    /\ pc' = "execute"
    /\ UNCHANGED <<envVars, normVars, narrVars, appVars, routeVars, ambVars, execVars>>

\* check_ambiguity has returned: one value is taken as the context and the entry
\* of the question rewritten, or the choices are offered and the run stops, or
\* nothing was found.
AmbiguityDone ==
    /\ pc = "amb_returned"
    /\ CASE amb.kind = "Resolved" ->
              /\ context' = amb.new
              /\ history' = [history EXCEPT ![Len(history)].content = Resultats(amb.new)]
              /\ pc' = "execute"
              /\ UNCHANGED <<session_options, last_query, ambiguous_term>>
         [] amb.kind = "Choices" ->
              /\ session_options' = amb.choices
              /\ last_query' = query
              /\ ambiguous_term' = Last(SplitWords(query))
              /\ pc' = "idle"
              /\ UNCHANGED <<context, history>>
         [] OTHER ->
              /\ pc' = "execute"
              /\ UNCHANGED <<context, history, session_options, last_query, ambiguous_term>>
    /\ found_keyword' = None
    /\ entity_type' = None
    /\ cols' = <<>>
    /\ options' = <<>>
    /\ amb' = Pending
    /\ lookups' = <<>>
    /\ UNCHANGED <<envVars, normVars, narrVars, count, greeting_cache, greeting_calls, typed, db, routeVars, execVars>>

\* The options are shown again and the run stops, or validate_and_execute is
\* called with the question and the context.
DataExecute ==
    /\ pc = "execute"
    /\ IF session_options # <<>>
       THEN /\ pc' = "idle"
            /\ UNCHANGED <<user_question, context_choice>>
       ELSE /\ pc' = "run1_generate"
            /\ user_question' = query
            /\ context_choice' = context
    /\ UNCHANGED <<envVars, normVars, narrVars, appVars, routeVars, ambVars, sql, df, final_sql, error, df_corr, sql_corr,
                   error_corr, ret, runs>>

\* validate_and_execute has returned: the reply is appended and the session
\* cleaned.
AnswerData ==
    /\ pc = "returned"
    /\ \E stream \in StreamOutcomes :
         LET table  == ret[1]
             err    == ret[3]
             told   == generate_narrative(query, table, stream)
         IN IF Truthy(err)
            THEN /\ history' = Append(history, Assistant(<<"<warn>", "<vs16>", " ">> \o err))
                 /\ UNCHANGED narrVars
            ELSE IF table = None \/ table = <<>>
            THEN /\ history' = Append(history, Assistant(NO_ROWS_MSG))
                 /\ UNCHANGED narrVars
            ELSE /\ history' = Append(history, Assistant(Join(told.chunks)))
                 /\ narration' = told.chunks
                 /\ narrative_calls' = told.calls
    /\ context' = None
    /\ session_options' = <<>>
    /\ ambiguous_term' = None
    /\ pc' = "answered"
    /\ UNCHANGED <<envVars, normVars, count, last_query, greeting_cache, greeting_calls, typed, routeVars, ambVars,
                   execVars>>

\* st.rerun() after a reply: the run that follows finds nothing to process, and
\* the locals of the run that replied are gone.
Rerun ==
    /\ pc = "answered"
    /\ pc' = "idle"
    /\ query' = <<>>
    /\ intent' = "NONE"
    /\ user_question' = <<>>
    /\ context_choice' = None
    /\ sql' = None
    /\ df' = None
    /\ final_sql' = None
    /\ error' = None
    /\ df_corr' = None
    /\ sql_corr' = None
    /\ error_corr' = None
    /\ ret' = None
    /\ runs' = <<>>
    /\ greeting_calls' = <<>>
    /\ narration' = <<>>
    /\ narrative_calls' = <<>>
    /\ UNCHANGED <<envVars, normVars, history, context, session_options, count, last_query, ambiguous_term,
                   typed, greeting_cache, ambVars>>

\* while len(history) > 1 and history[-2] is the assistant's: history.pop(-2)
RECURSIVE drop_answers(_)
drop_answers(h) ==
    IF Len(h) > 1 /\ h[Len(h) - 1].role = "assistant"
    THEN drop_answers(SubSeq(h, 1, Len(h) - 2) \o <<Last(h)>>)
    ELSE h

\* The history after the click on an option, for the value it holds.
history_after_choice(h, valeur_propre, terme_ambigu, question_initiale) ==
    LET rewritten == [h EXCEPT ![Len(h)].content = Resultats(valeur_propre)] IN
    IF Truthy(terme_ambigu) /\ Contains(Lower(terme_ambigu), Lower(question_initiale))
    THEN IF h # <<>> THEN rewritten ELSE h
    ELSE IF h # <<>> /\ Last(h).role = "user" THEN drop_answers(rewritten) ELSE h

\* The user clicks one of the options offered: the run routes the question
\* again, skips check_ambiguity, shows the options and handles the click.
SelectOption ==
    /\ pc = "idle"
    /\ session_options # <<>>
    /\ history # <<>> /\ Last(history).role = "user"
    /\ route_intent(Last(history).content) = "DATA"
    /\ \E i \in 1..Len(session_options) :
         LET valeur_propre == Strip(Last(SplitOn(session_options[i], <<":", " ">>))) IN
         /\ context' = valeur_propre
         /\ history' = history_after_choice(history, valeur_propre,
                                            IF ambiguous_term = None THEN <<>> ELSE ambiguous_term,
                                            IF last_query = None THEN <<>> ELSE last_query)
    /\ session_options' = <<>>
    /\ pc' = "process"
    /\ UNCHANGED <<envVars, normVars, narrVars, count, last_query, ambiguous_term, greeting_cache, greeting_calls, typed, routeVars,
                   ambVars, execVars>>

Init ==
    /\ pc = "idle"
    /\ query = <<>>
    /\ intent = "NONE"
    /\ db = AppData
    /\ oracle_behaviour = SessionOracleOutcomes
    /\ engine_behaviour = SessionEngineOutcomes
    /\ AmbFresh
    /\ user_question = <<>>
    /\ context_choice = None
    /\ ExecFresh
    /\ AppFresh
    /\ partis_map = SessionAliases
    /\ NormFresh
    /\ NarrFresh

Next ==
    \/ ChatInput
    \/ ResetChat
    \/ SelectOption
    \/ AppRoute
    \/ AnswerIntent
    \/ DataCheckAmbiguity
    \/ DataSkipAmbiguity
    \/ AmbExtract
    \/ AmbLookup
    \/ AmbLookupFails
    \/ AmbReturn
    \/ AmbiguityDone
    \/ DataExecute
    \/ Generate1
    \/ Gate1
    \/ Retry
    \/ Generate2
    \/ Gate2
    \/ ReturnCorrected
    \/ ReturnFirst
    \/ AnswerData
    \/ Rerun

Spec == Init /\ [][Next]_vars

(***************************************************************************)
(* The router called on its own                                            *)
(***************************************************************************)
InitRoute ==
    /\ pc = "route"
    /\ query \in RouterQuestions
    /\ intent = "NONE"
    /\ db = NoData
    /\ oracle_behaviour = OracleOutcomes
    /\ engine_behaviour = EngineOutcomes
    /\ AmbFresh
    /\ user_question = <<>>
    /\ context_choice = None
    /\ ExecFresh
    /\ AppFresh
    /\ partis_map = SessionAliases
    /\ NormFresh
    /\ NarrFresh

RouteCall ==
    /\ pc = "route"
    /\ intent' = route_intent(query)
    /\ pc' = "routed"
    /\ UNCHANGED <<envVars, normVars, narrVars, appVars, query, ambVars, execVars>>

NextRoute == RouteCall

SpecRoute == InitRoute /\ [][NextRoute]_vars

(***************************************************************************)
(* check_ambiguity called on its own                                       *)
(***************************************************************************)
\* Contents of the three columns of vw_results_clean.
Databases == {
    Data({ <<"G", "O", "H">>, <<"T", "O", "N", "K", "P", "I">> },
         { <<"D", "I", "V", "O", ",", " ", "C", "O", "M", "M", "U", "N", "E">>, <<"D", "I", "V", "O", ",", " ", "S", "O", "U", "S", "-", "P", "R", "E", "F", "E", "C", "T", "U", "R", "E">>, <<"M", "A", "N", ",", " ", "C", "O", "M", "M", "U", "N", "E">> },
         { <<"K", "O", "N", "E", " ", "D", "I", "V", "O">>, <<"Y", "A", "O">> }),
    Data({ <<"T", "O", "N", "K", "P", "I">> },
         { <<"M", "A", "N", " ", "A">>, <<"M", "A", "N", " ", "B">>, <<"M", "A", "N", " ", "C">>, <<"M", "A", "N", " ", "D">>, <<"D", "I", "V", "O">> },
         { <<"M", "A", "N">> }),
    NoData }

AmbQuestions == {
    <<"C", "o", "m", "b", "i", "e", "n", " ", "d", "e", " ", "v", "o", "i", "x", " ", "p", "o", "u", "r", " ", "l", "e", " ", "R", "H", "D", "P", " ", "<a-grave>", " ", "D", "i", "v", "o", "?">>,
    <<"r", "<e-acute>", "s", "u", "l", "t", "a", "t", "s", " ", "r", "<e-acute>", "g", "i", "o", "n", " ", "d", "u", " ", "T", "o", "n", "k", "p", "i">>,
    <<"c", "o", "m", "m", "u", "n", "e", " ", "d", "e", " ", "D", "i", "v", "o">>,
    <<"c", "a", "n", "d", "i", "d", "a", "t", " ", "K", "o", "n", "e">>,
    <<"v", "o", "i", "x", " ", "p", "o", "u", "r", " ", "l", "e", " ", "c", "a", "n", "d", "i", "d", "a", "t", " ", "K", "o", "n", "e">>,
    <<"q", "u", "i", " ", "a", " ", "g", "a", "g", "n", "<e-acute>", " ", "<a-grave>", " ", "M", "a", "n", " ", "?">>,
    <<"s", "c", "o", "r", "e", " ", "D", "i", "v", "o">>,
    <<"G", "o", "h">>,
    <<"r", "<e-acute>", "g", "i", "o", "n", ":", " ">>,
    <<>> }

InitAmbiguity ==
    /\ pc = "amb_extract"
    /\ db \in Databases
    /\ oracle_behaviour = OracleOutcomes
    /\ engine_behaviour = EngineOutcomes
    /\ query \in AmbQuestions
    /\ intent = "NONE"
    /\ AmbFresh
    /\ user_question = <<>>
    /\ context_choice = None
    /\ ExecFresh
    /\ AppFresh
    /\ partis_map = SessionAliases
    /\ NormFresh
    /\ NarrFresh

NextAmbiguity == check_ambiguity

SpecAmbiguity == InitAmbiguity /\ [][NextAmbiguity]_vars

(***************************************************************************)
(* validate_and_execute called on its own                                  *)
(***************************************************************************)
ExecQuestions == { <<"C", "o", "m", "b", "i", "e", "n", " ", "d", "e", " ", "v", "o", "i", "x", " ", "p", "o", "u", "r", " ", "l", "e", " ", "R", "H", "D", "P", " ", "<a-grave>", " ", "D", "i", "v", "o", "?">>, <<"t", "o", "p", " ", "3">> }

ExecChoices == { None, <<>>, <<"D", "I", "V", "O", ",", " ", "C", "O", "M", "M", "U", "N", "E">> }

InitExec ==
    /\ pc = "run1_generate"
    /\ query = <<>>
    /\ intent = "NONE"
    /\ db = NoData
    /\ oracle_behaviour = OracleOutcomes
    /\ engine_behaviour = EngineOutcomes
    /\ AmbFresh
    /\ user_question \in ExecQuestions
    /\ context_choice \in ExecChoices
    /\ ExecFresh
    /\ AppFresh
    /\ partis_map = SessionAliases
    /\ NormFresh
    /\ NarrFresh

NextExec == validate_and_execute

SpecExec == InitExec /\ [][NextExec]_vars

(***************************************************************************)
(* normalize_query called on its own, and then on its own result           *)
(***************************************************************************)
\* Contents of common_aliases.partis.
AliasTables == {
    <<>>,
    SessionAliases,
    << Aliases(<<"R", "H", "D", "P">>, << <<"R", "H">>, <<"P", "a", "r", "t", "i", " ", "R", "H", "D", "P">>, <<"r", "h", "d", "p">> >>),
       Aliases(<<"F", "P", "I">>, << <<"F", "r", "o", "n", "t", " ", "P", "o", "p", "u", "l", "a", "i", "r", "e">> >>) >>,
    << Aliases(<<"R", "H", "D", "P">>, << <<"H", "o", "u", "p", "h", "o", "u", "e", "t", "i", "s", "t", "e", "s">> >>),
       Aliases(<<"I", "N", "D", "E", "P", "E", "N", "D", "A", "N", "T">>, << <<"I", "N", "D">>, <<"S", "a", "n", "s", " ", "P", "a", "r", "t", "i">> >>) >> }

NormWords == {
    <<"v", "o", "i", "x">>, <<"r", "h", "d", "p">>, <<"R", "H">>, <<"p", "a", "r", "t", "i">>, <<"P", "D", "C", "I">>, <<"p", "d", "c", "i", "-", "r", "d", "a">>, <<"i", "n", "d">>, <<"s", "a", "n", "s">>,
    <<"f", "r", "o", "n", "t", " ", "p", "o", "p", "u", "l", "a", "i", "r", "e", " ">>, <<"h", "o", "u", "p", "h", "o", "u", "e", "t", "i", "s", "t", "e", "s", "?">> }

NormQuestions ==
    { <<>> } \cup NormWords \cup { v \o <<" ">> \o w : v \in NormWords, w \in NormWords }

InitNormalize ==
    /\ pc = "normalize"
    /\ query \in NormQuestions
    /\ partis_map \in AliasTables
    /\ NormFresh
    /\ intent = "NONE"
    /\ db = NoData
    /\ oracle_behaviour = OracleOutcomes
    /\ engine_behaviour = EngineOutcomes
    /\ AmbFresh
    /\ user_question = <<>>
    /\ context_choice = None
    /\ ExecFresh
    /\ AppFresh
    /\ NarrFresh

NormalizeCall ==
    /\ pc = "normalize"
    /\ normalized' = normalize_query(query, partis_map)
    /\ pc' = "normalized"
    /\ UNCHANGED <<envVars, partis_map, renormalized, narrVars, routeVars, ambVars, execVars,
                   appVars>>

NormalizeAgain ==
    /\ pc = "normalized"
    /\ renormalized' = normalize_query(normalized, partis_map)
    /\ pc' = "renormalized"
    /\ UNCHANGED <<envVars, partis_map, normalized, narrVars, routeVars, ambVars, execVars,
                   appVars>>

NextNormalize == NormalizeCall \/ NormalizeAgain

SpecNormalize == InitNormalize /\ [][NextNormalize]_vars

(***************************************************************************)
(* generate_narrative called on its own                                    *)
(***************************************************************************)
NarrativeQuestions == {
    <<"C", "o", "m", "b", "i", "e", "n", " ", "d", "e", " ", "v", "o", "i", "x", " ", "p", "o", "u", "r", " ", "l", "e", " ", "R", "H", "D", "P", " ", "<a-grave>", " ", "D", "i", "v", "o", "?">>, <<"t", "o", "p", " ", "3">>, <<"s", "c", "o", "r", "e", " ", "D", "i", "v", "o">>, <<"R", "<e-acute>", "s", "u", "l", "t", "a", "t", "s", " ", "p", "o", "u", "r", " ", "G", "O", "H">>, <<>> }

\* The rows handed to generate_narrative: none, or a table.
NarrativeTables == Tables \cup { None, <<"row", "row">>, <<"row", "row", "row", "row">> }

InitNarrative ==
    /\ pc = "narrate"
    /\ query \in NarrativeQuestions
    /\ df \in NarrativeTables
    /\ NarrFresh
    /\ intent = "NONE"
    /\ db = NoData
    /\ oracle_behaviour = OracleOutcomes
    /\ engine_behaviour = EngineOutcomes
    /\ AmbFresh
    /\ user_question = <<>>
    /\ context_choice = None
    /\ sql = None
    /\ final_sql = None
    /\ error = None
    /\ df_corr = None
    /\ sql_corr = None
    /\ error_corr = None
    /\ ret = None
    /\ runs = <<>>
    /\ AppFresh
    /\ partis_map = SessionAliases
    /\ NormFresh

\* The generator is run to its end, as "".join does.
NarrativeCall ==
    /\ pc = "narrate"
    /\ \E stream \in StreamOutcomes :
         LET told == generate_narrative(query, df, stream) IN
         /\ narration' = told.chunks
         /\ narrative_calls' = told.calls
    /\ pc' = "narrated"
    /\ UNCHANGED <<envVars, normVars, routeVars, ambVars, execVars, appVars>>

NextNarrative == NarrativeCall

SpecNarrative == InitNarrative /\ [][NextNarrative]_vars

(***************************************************************************)
(* Claims about the router                                                 *)
(***************************************************************************)
\* k occurs in q as a whole word, whatever the case: bounded on both sides by
\* the ends of the text or by characters that are no letters of a word.
OccursAsWord(k, q) ==
    LET up == Upper(q)
        kw == Upper(k)
    IN \E i \in 1..Len(up) :
         /\ OccursAt(kw, up, i)
         /\ (i = 1 \/ up[i - 1] \notin WordClass)
         /\ (i + Len(kw) > Len(up) \/ up[i + Len(kw)] \notin WordClass)

\* The first rule of the router: a forbidden keyword of the schema other than
\* the excepted term, as a whole word.
HasForbiddenWord(q) ==
    \E k \in forbidden_keywords : Upper(k) # <<"I", "N", "D", "E", "P", "E", "N", "D", "A", "N", "T">> /\ OccursAsWord(k, q)

HasMutationVerb(q) == \E mot \in mots_dangereux : Contains(mot, Upper(q))

HasGreeting(q) == \E kw \in salutations : Contains(kw, Upper(q))

\* C1: a question that holds a forbidden keyword (a whole word, the excepted term
\* aside) or a data-mutation verb, and also a greeting token, is routed to
\* SECURITY, never to GREETING.
C1_SecurityBeatsGreeting ==
    (pc = "routed" /\ (HasForbiddenWord(query) \/ HasMutationVerb(query))
        /\ HasGreeting(query))
        => intent = "SECURITY"

C1_Witness ==
    /\ pc = "routed"
    /\ HasForbiddenWord(query)
    /\ ~HasMutationVerb(query)
    /\ HasGreeting(query)
    /\ intent = "SECURITY"

HasOfftopicToken(q) == \E mot \in mots_hors_sujet : Contains(mot, Upper(q))

HasDataKeyword(q) == \E kw \in data_keywords : Contains(kw, Upper(q))

\* C15: route_intent always returns one of the four intents, and for a question
\* that matches no SECURITY rule: GREETING if it holds a greeting token, else
\* OFFTOPIC if it holds a token of the off-topic vocabulary (as "quel temps
\* fait-il" does), else DATA, with or without a data keyword.
C15_TotalAndOrdered ==
    pc = "routed" =>
        /\ intent \in {"SECURITY", "GREETING", "OFFTOPIC", "DATA"}
        /\ (~HasForbiddenWord(query) /\ ~HasMutationVerb(query)) =>
              intent = IF HasGreeting(query) THEN "GREETING"
                       ELSE IF HasOfftopicToken(query) THEN "OFFTOPIC"
                       ELSE "DATA"
        /\ (~HasForbiddenWord(query) /\ ~HasMutationVerb(query) /\ ~HasGreeting(query)
                /\ ~HasOfftopicToken(query) /\ ~HasDataKeyword(query)) => intent = "DATA"
        /\ query = <<"q", "u", "e", "l", " ", "t", "e", "m", "p", "s", " ", "f", "a", "i", "t", "-", "i", "l">> => intent = "OFFTOPIC"

\* A question that holds a greeting and an off-topic token, and matches no
\* SECURITY rule, was routed.
C15_Witness ==
    /\ pc = "routed"
    /\ ~HasForbiddenWord(query) /\ ~HasMutationVerb(query)
    /\ HasGreeting(query) /\ HasOfftopicToken(query)
    /\ intent = "GREETING"

C14_NormalizedBeforeRouting ==
    pc \in {"intent_answer", "data"}
        => query = normalize_query(Last(history).content, partis_map)

(***************************************************************************)
(* Claims about check_ambiguity                                            *)
(***************************************************************************)
\* The candidates found: the pairs of a scanned column and a value its lookup
\* returned.
Candidates ==
    UNION { { <<lookups[i].col, v>> : v \in Range(lookups[i].values) } : i \in 1..Len(lookups) }

\* C10: check_ambiguity returns Resolved exactly when the scanned columns gave one
\* candidate, Choices exactly when they gave two or more, None exactly when they
\* gave none, which covers the case of no term extracted.
C10_OutcomeByCandidateCount ==
    pc = "amb_returned" =>
        LET n == Cardinality(Candidates) IN
        /\ amb.kind \in {"Resolved", "Choices", "None"}
        /\ amb.kind = "Resolved" <=> n = 1
        /\ amb.kind = "Choices" <=> n >= 2
        /\ amb.kind = "None" <=> n = 0
        /\ ~Truthy(found_keyword) => amb.kind = "None" /\ lookups = <<>>

\* Three columns were scanned, one lookup failed, and the two others gave one
\* candidate between them.
C10_Witness ==
    /\ pc = "amb_returned"
    /\ amb.kind = "Resolved"
    /\ Len(lookups) = Len(scan_columns(None))
    /\ \E i \in 1..Len(lookups) : lookups[i].failed

(***************************************************************************)
(* Claims about validate_and_execute and generate_sql                      *)
(***************************************************************************)
BeginsWithSelect(q) == OccursAtAnyCase(SELECT, q, 1)

MentionsSelect(text) == \E i \in 1..Len(text) : OccursAtAnyCase(SELECT, text, i)

Executed(r) == r.verdict = "executed"

GateBlocked(r) == r.verdict \in {"not_select", "no_view"}

\* C3: every query handed to the data engine begins, whatever the case, with
\* SELECT; a query that does not is refused by the gate with the blocked message
\* and not executed, and so is every oracle text that holds no SELECT at all.
C3_OnlySelectExecuted ==
    \A i \in 1..Len(runs) :
        LET r == runs[i] IN
        /\ Executed(r) => BeginsWithSelect(r.sql)
        /\ (r.verdict # "pending" /\ ~BeginsWithSelect(r.sql))
              => r.verdict = "not_select" /\ r.error = BLOCKED /\ r.df = None
        /\ (r.verdict # "pending" /\ r.oracle.kind = "text" /\ ~MentionsSelect(r.oracle.text))
              => r.verdict = "not_select"

\* One run executed a query cut out of an oracle text that did not begin with
\* SELECT, another refused an oracle text without any SELECT.
C3_Witness ==
    /\ \E i \in 1..Len(runs) :
         /\ Executed(runs[i])
         /\ ~BeginsWithSelect(runs[i].oracle.text)
    /\ \E j \in 1..Len(runs) :
         /\ runs[j].verdict = "not_select"
         /\ runs[j].oracle.kind = "text"
         /\ runs[j].oracle.text # <<>>

References(q, name) == \E i \in 1..Len(q) : OccursAtAnyCase(name, q, i)

\* C4 (as claimed): a SELECT query reaches the engine if and only if its text
\* references a name of allowed_views or of allowed_tables.
C4_GateIffAllowListed ==
    \A i \in 1..Len(runs) :
        LET r == runs[i] IN
        (r.verdict # "pending" /\ BeginsWithSelect(r.sql))
            => (Executed(r) <=> \E name \in allowed_objects : References(r.sql, name))

IdentClass == Range(<<"a", "b", "c", "d", "e", "f", "g", "h", "i", "j", "k", "l", "m", "n", "o", "p", "q", "r", "s", "t", "u", "v", "w", "x", "y", "z", "A", "B", "C", "D", "E", "F", "G", "H", "I", "J", "K", "L", "M", "N", "O", "P", "Q", "R", "S", "T", "U", "V", "W", "X", "Y", "Z", "0", "1", "2", "3", "4", "5", "6", "7", "8", "9", "_">>)

\* The data objects a query reads from: the names that follow FROM and JOIN.
ReadsFrom(q) ==
    LET after == { x \in (1..Len(q)) \X { <<" ", "F", "R", "O", "M", " ">>, <<" ", "J", "O", "I", "N", " ">> } :
                     OccursAtAnyCase(x[2], q, x[1]) }
    IN { SubSeq(q, x[1] + Len(x[2]), RunEnd(q, x[1] + Len(x[2]), IdentClass)) : x \in after }

SameName(a, b) == Len(a) = Len(b) /\ OccursAtAnyCase(a, b, 1)

\* C5 (as claimed): every data object an executed query reads from is a member of
\* allowed_views or allowed_tables.
C5_ReadsOnlyAllowListed ==
    \A i \in 1..Len(runs) :
        Executed(runs[i])
            => \A obj \in ReadsFrom(runs[i].sql) :
                  \E name \in allowed_objects : SameName(obj, name)

\* The kinds of an execution failure, by the substrings the code looks for.
UnknownColumn(err) == Contains(<<"c", "o", "l", "u", "m", "n">>, Lower(err))

SyntaxError(err) == Contains(<<"s", "y", "n", "t", "a", "x">>, Lower(err)) \/ Contains(<<"p", "a", "r", "s", "e", "r">>, Lower(err))

ExecutionFailed(r) == Executed(r) /\ Truthy(r.error)

\* C6: there is a second run, fed the first error, exactly when the execution of
\* the first failed with UnknownColumn or SyntaxError; the second run is the last,
\* whatever its outcome.
C6_OneRetryOnColumnOrSyntax ==
    /\ Len(runs) <= 2
    /\ pc \in {"after_run2", "returned"} =>
         IF ExecutionFailed(runs[1])
               /\ (UnknownColumn(runs[1].error) \/ SyntaxError(runs[1].error))
         THEN /\ Len(runs) = 2
              /\ runs[2].request.feedback = feedback_instruction(runs[1].error)
              /\ runs[2].verdict # "pending"
         ELSE Len(runs) = 1

\* The retry was made and its execution failed too, with an error that would ask
\* for a retry: the call has returned all the same.
C6_Witness ==
    /\ pc = "returned"
    /\ Len(runs) = 2
    /\ ExecutionFailed(runs[2])
    /\ SyntaxError(runs[2].error)

\* C7 (as claimed): a block by the gate ends the call without a retry, and the
\* error returned is the blocked-for-security message.
C7_GateBlockSurfacedAsBlocked ==
    (pc = "returned" /\ GateBlocked(Last(runs)))
        => /\ ret[3] = BLOCKED
           /\ GateBlocked(runs[1]) => Len(runs) = 1

\* C8 (as claimed): the text generate_sql returns begins with SELECT.
C8_GeneratedBeginsWithSelect ==
    \A i \in 1..Len(runs) :
        runs[i].outcome = "returned" => BeginsWithSelect(runs[i].generated)

\* The query that selects everything matching a value, on the canonical view.
SelectEverything(choice) ==
    <<"S", "E", "L", "E", "C", "T", " ", "*", " ", "F", "R", "O", "M", " ", "v", "w", "_", "r", "e", "s", "u", "l", "t", "s", "_", "c", "l", "e", "a", "n", " ", "W", "H", "E", "R", "E", " ", "c", "i", "r", "c", "o", "n", "s", "c", "r", "i", "p", "t", "i", "o", "n", " ", "=", " ", "'">> \o choice \o <<"'">>

OracleUnusable(r) == r.oracle.kind \in {"raise", "no_text"}

\* C9 (as claimed): with the oracle unusable, generate_sql returns the
\* select-everything query of the resolved entity when there is one, and otherwise
\* fails with GenerationError; the call then executes nothing and returns the
\* generic message.
C9_FallbackOrGenerationError ==
    \A i \in 1..Len(runs) :
        LET r == runs[i] IN
        OracleUnusable(r) =>
            IF Truthy(context_choice)
            THEN r.outcome = "returned" /\ Strip(r.generated) = SelectEverything(context_choice)
            ELSE /\ r.outcome = "GenerationError"
                 /\ ~Executed(r)
                 /\ pc = "returned" => ret[3] = MSG_OTHER

\* The messages validate_and_execute words for the user.
UserMessages == { MSG_COLUMN, MSG_SYNTAX, MSG_OTHER }

\* The texts of the failures: what the engine raised, in any run of the call.
RawErrors == { runs[i].error : i \in { j \in 1..Len(runs) : Executed(runs[j]) /\ Truthy(runs[j].error) } }

\* C11: whatever the oracle and the engine did, the error validate_and_execute
\* returns is absent or one of its fixed messages, and never the text of an
\* engine failure.
C11_ErrorAbsentOrFixedMessage ==
    pc = "returned" =>
        /\ ret[3] = None \/ ret[3] \in UserMessages
        /\ ret[3] \notin RawErrors
        /\ ret[3] \notin EngineErrors

\* Both runs were executed and failed, the second with an error of no kind the
\* translation knows.
C11_Witness ==
    /\ pc = "returned"
    /\ Len(runs) = 2
    /\ ExecutionFailed(runs[1])
    /\ ExecutionFailed(runs[2])
    /\ ~UnknownColumn(runs[2].error) /\ ~SyntaxError(runs[2].error)
    /\ ret[3] = MSG_OTHER

(***************************************************************************)
(* Claims about normalize_query                                            *)
(***************************************************************************)
\* C12 (as claimed): normalize_query applied to its own result gives that result
\* again, whatever the question and the alias table.
C12_NormalizeIdempotent ==
    pc = "renormalized" => renormalized = normalized

(***************************************************************************)
(* Claims about generate_narrative                                         *)
(***************************************************************************)
\* C13: for rows that are absent or empty, generate_narrative yields the no-data
\* message as its only chunk and sends nothing to the oracle.
C13_NoDataWithoutOracle ==
    (pc = "narrated" /\ (df = None \/ df = <<>>))
        => /\ narration = << no_data_chunk >>
           /\ narrative_calls = <<>>

\* The call was made with an empty table, and with a question that is not empty.
C13_Witness ==
    /\ pc = "narrated"
    /\ df = <<>>
    /\ query # <<>>
    /\ narration = << no_data_chunk >>

(***************************************************************************)
(* Claims about the extraction and the lookups of check_ambiguity          *)
(***************************************************************************)
DIVO_QUESTION == <<"C", "o", "m", "b", "i", "e", "n", " ", "d", "e", " ", "v", "o", "i", "x", " ", "p", "o", "u", "r", " ", "l", "e", " ", "R", "H", "D", "P", " ", "<a-grave>", " ", "D", "i", "v", "o", "?">>

NoLookupFailed == \A i \in 1..Len(lookups) : ~lookups[i].failed

\* The value an option holds, after its label.
OptionValue(opt) == Last(SplitOn(opt, <<":", " ">>))

\* C16 (as claimed): for the question about Divo, with data whose circonscription
\* column holds DIVO, COMMUNE and DIVO, SOUS-PREFECTURE, the router returns DATA,
\* and check_ambiguity extracts DIVO and returns the Choices made of these two.
C16_DivoScenario ==
    (/\ pc = "amb_returned"
     /\ query = DIVO_QUESTION
     /\ { <<"D", "I", "V", "O", ",", " ", "C", "O", "M", "M", "U", "N", "E">>, <<"D", "I", "V", "O", ",", " ", "S", "O", "U", "S", "-", "P", "R", "E", "F", "E", "C", "T", "U", "R", "E">> } \subseteq db[circonscription]
     /\ NoLookupFailed)
        => /\ route_intent(query) = "DATA"
           /\ found_keyword = <<"D", "I", "V", "O">>
           /\ amb.kind = "Choices"
           /\ Len(amb.choices) = 2
           /\ { OptionValue(amb.choices[i]) : i \in 1..Len(amb.choices) }
                 = { <<"D", "I", "V", "O", ",", " ", "C", "O", "M", "M", "U", "N", "E">>, <<"D", "I", "V", "O", ",", " ", "S", "O", "U", "S", "-", "P", "R", "E", "F", "E", "C", "T", "U", "R", "E">> }

\* The patterns in the order claimed, each named by its literal: the explicit
\* ones, region, commune, circonscription, candidate, then the generic ones.
ClaimedOrder == << <<"R", "E", "G", "I", "O", "N">>, <<"C", "O", "M", "M", "U", "N", "E">>, <<"C", "I", "R", "C", "O", "N", "S", "C", "R", "I", "P", "T", "I", "O", "N">>, <<"C", "A", "N", "D", "I", "D", "A", "T">>, <<"M", "O", "N", "S", "I", "E", "U", "R">>, <<"<A-grave>">>, <<"P", "O", "U", "R">> >>

PatternOf(lit) == patterns[CHOOSE n \in 1..Len(patterns) : lit \in patterns[n].lits]

\* The text extract_entity searches, for the question asked.
Searched == Upper(clean_input(query))

MatchOf(lit) == search(PatternOf(lit), Searched)

\* C18 (as claimed): the first pattern of the claimed order that matches fixes the
\* term and the category; a question that matches the explicit candidate pattern
\* and the generic "pour X" form is given the category candidat.
C18_ExplicitBeforeGeneric ==
    LET matching == { n \in 1..Len(ClaimedOrder) : MatchOf(ClaimedOrder[n]).matched } IN
    (pc \in {"amb_scan", "amb_returned"} /\ matching # {})
        => /\ entity_type = PatternOf(ClaimedOrder[MinOf(matching)]).type
           /\ found_keyword = Strip(MatchOf(ClaimedOrder[MinOf(matching)]).group)
           /\ (MatchOf(<<"C", "A", "N", "D", "I", "D", "A", "T">>).matched /\ MatchOf(<<"P", "O", "U", "R">>).matched
                  /\ \A n \in 1..3 : ~MatchOf(ClaimedOrder[n]).matched)
                 => entity_type = candidat

\* The options of the lookups that answered, from lookup number i on.
RECURSIVE Gathered(_)
Gathered(i) ==
    IF i > Len(lookups) THEN <<>>
    ELSE LET label == scan_columns(entity_type)[i][2]
             found == IF lookups[i].failed THEN <<>> ELSE lookups[i].values
         IN [k \in 1..Len(found) |-> label \o <<":", " ">> \o found[k]] \o Gathered(i + 1)

\* C19: whichever lookups fail, every column to scan is scanned, in order; a
\* column whose lookup failed gives no option; and check_ambiguity returns
\* Resolved, Choices or None as the options of the other columns decide.
C19_FailedLookupSkipped ==
    (pc = "amb_returned" /\ Truthy(found_keyword)) =>
        LET scanned == scan_columns(entity_type)
            unique  == Range(Gathered(1))
        IN /\ Len(lookups) = Len(scanned)
           /\ \A i \in 1..Len(lookups) : lookups[i].col = scanned[i][1]
           /\ options = Gathered(1)
           /\ amb.kind = IF Cardinality(unique) = 1 THEN "Resolved"
                          ELSE IF Cardinality(unique) > 1 THEN "Choices"
                          ELSE "None"
           /\ Range(amb.choices) = IF Cardinality(unique) > 1 THEN unique ELSE {}

\* The lookup of the first of three columns failed, and the two others gave the
\* choices returned.
C19_Witness ==
    /\ pc = "amb_returned"
    /\ Len(lookups) = 3
    /\ lookups[1].failed
    /\ ~lookups[2].failed /\ ~lookups[3].failed
    /\ lookups[1].col = region /\ db[region] # {}
    /\ amb.kind = "Choices"

\* C20 (as claimed): the column of a Resolved outcome is the column the candidate
\* was found in, one of region, circonscription, candidat, and its value is the
\* whole value found.
C20_ResolvedColumnAndValue ==
    (pc = "amb_returned" /\ amb.kind = "Resolved")
        => /\ amb.column \in {region, circonscription, candidat}
           /\ <<amb.column, amb.new>> \in Candidates

(***************************************************************************)
(* Claims about the query run_process executes                             *)
(***************************************************************************)
\* Nothing but whitespace in text from position i on.
BlankFrom(text, i) == \A k \in i..Len(text) : text[k] \in Whitespace

\* body is a piece of text that ends where text has its next ';', or where text
\* ends.
CutAtTerminator(body, text) ==
    \E i \in 1..(Len(text) + 1) :
        /\ OccursAt(body, text, i)
        /\ \/ i + Len(body) <= Len(text) /\ text[i + Len(body)] = ";"
           \/ BlankFrom(text, i + Len(body))

\* C17: every query executed is one statement: its only ';' is its last
\* character, and what precedes it is the generated query up to its first ';',
\* so that nothing the oracle wrote after that ';' is executed.
C17_OneStatementExecuted ==
    \A i \in 1..Len(runs) :
        Executed(runs[i]) =>
            LET q    == runs[i].sql
                body == SubSeq(q, 1, Len(q) - 1)
            IN /\ q # <<>>
               /\ Last(q) = ";"
               /\ ";" \notin Range(body)
               /\ CutAtTerminator(body, runs[i].generated)

\* A query was executed that the oracle had followed by a second statement.
C17_Witness ==
    \E i \in 1..Len(runs) :
        /\ Executed(runs[i])
        /\ Contains(<<";", " ", "D", "R", "O", "P", " ", "T", "A", "B", "L", "E">>, runs[i].oracle.text)
        /\ ~Contains(<<"D", "R", "O", "P">>, runs[i].sql)

(***************************************************************************)
(* Claims about the failures of the oracle in generate_narrative           *)
(***************************************************************************)
\* The fallback as the claim words it: the fixed text around the number of rows.
FallbackFor(n) ==
    <<"D", "o", "n", "n", "<e-acute>", "e", "s", " ", "r", "<e-acute>", "c", "u", "p", "<e-acute>", "r", "<e-acute>", "e", "s", ":", " ">> \o << <<"0", "1", "2", "3", "4", "5", "6", "7", "8", "9">>[n + 1] >> \o <<" ", "r", "<e-acute>", "s", "u", "l", "t", "a", "t", "(", "s", ")", ".">>

\* C21: for rows that are not empty, when the stream of the oracle fails, at its
\* start or after some chunks, generate_narrative still ends; its last chunk is
\* the fallback that states the number of rows, what it yielded before is what
\* the stream gave, and a stream that failed before any chunk leaves the fallback
\* alone.
C21_FallbackOnStreamFailure ==
    (pc = "narrated" /\ df # None /\ df # <<>> /\ narrative_calls[1].stream.raises) =>
        LET given == narrative_calls[1].stream.chunks IN
        /\ narration # <<>>
        /\ Last(narration) = FallbackFor(Len(df))
        /\ Len(narration) <= Len(given) + 1
        /\ \A k \in 1..(Len(narration) - 1) : narration[k] \in Range(given)
        /\ given = <<>> => narration = << FallbackFor(Len(df)) >>

\* The stream gave one chunk and failed, for a table of three rows.
C21_Witness ==
    /\ pc = "narrated"
    /\ Len(df) = 3 /\ df # None
    /\ narrative_calls # <<>>
    /\ narrative_calls[1].stream.raises
    /\ Len(narration) = 2

(***************************************************************************)
(* Claims about the oracle and the replies that need none                  *)
(***************************************************************************)
\* C22: a question routed to SECURITY or to OFFTOPIC is answered with its fixed
\* message without any call of the oracle: while the intent of the run is one of
\* the two, generate_greeting has sent nothing to the oracle.
C22_OracleOnlyForGreeting ==
    intent \in {"SECURITY", "OFFTOPIC"} => greeting_calls = <<>>

(***************************************************************************)
(* Claims about what validate_and_execute returns and sends                *)
(***************************************************************************)
\* C23: the triple returned by validate_and_execute is that of one attempt, the
\* last one made: its query text is the query of that attempt, its rows are the
\* rows of that attempt, and its message is there exactly when that attempt
\* failed. After a retry that failed too, the query returned is the retry's.
C23_TripleOfOneAttempt ==
    (pc = "returned" /\ runs # <<>>) =>
        LET attempt == Last(runs) IN
        /\ ret[2] = attempt.sql
        /\ ret[1] = attempt.df
        /\ Truthy(ret[3]) <=> Truthy(attempt.error)

\* C24: whatever the resolved entity and the error feedback, what the oracle
\* receives for an attempt (the instructions and the prompt) holds the question
\* of the user.
C24_RequestHoldsQuestion ==
    \A k \in 1..Len(runs) :
        \/ Contains(user_question, runs[k].request.prompt)
        \/ Contains(user_question, runs[k].request.context)
        \/ Contains(user_question, runs[k].request.feedback)

(***************************************************************************)
(* Claims about the context of the session                                 *)
(***************************************************************************)
\* The value is one the data holds for the term of the question.
ResolvedFor(value, question) ==
    /\ question # None
    /\ \E col \in DOMAIN db : value \in db[col]
    /\ lookup_matches(value, extract_entity(clean_input(question))[1])

\* C25: no context crosses questions. The context handed to
\* validate_and_execute is empty or a value of the data found for the term of
\* the question typed last, and it is the value the entry of that question was
\* rewritten for; and when the processing of a question just typed starts, the
\* session holds neither a context nor pending choices.
C25_NoContextAcrossQuestions ==
    /\ (pc = "run1_generate" /\ Truthy(context_choice)) =>
          /\ ResolvedFor(context_choice, typed)
          /\ Last(history) = User(Resultats(context_choice))
    /\ (pc = "process" /\ Last(history) = User(typed)) =>
          (context = None /\ session_options = <<>>)

\* A second question, typed while the choices of the first were pending, is
\* handed to validate_and_execute with the value found for it alone.
C25_Witness ==
    /\ pc = "run1_generate"
    /\ count = 2
    /\ history[1] = User(<<"s", "c", "o", "r", "e", " ", "D", "i", "v", "o">>)
    /\ typed = <<"t", "o", "p", " ", "3">>
    /\ context_choice = <<"G", "O", "H">>

\* C26: once a choice is selected, the processing of the question goes to
\* validate_and_execute with the selected value: while the session holds the
\* selected value, the run neither answers with a SECURITY, OFFTOPIC or GREETING
\* reply nor runs check_ambiguity, and validate_and_execute is given that value.
C26_SelectionReachesExecution ==
    Truthy(context) =>
        /\ pc \notin {"intent_answer", "answered", "amb_extract", "amb_scan", "amb_returned"}
        /\ intent \notin {"SECURITY", "OFFTOPIC", "GREETING"}
        /\ pc \in {"run1_generate", "run1_gate", "after_run1", "run2_generate", "run2_gate",
                    "after_run2", "returned"} => context_choice = context

====
